---- MODULE Spec2Model ----
(***************************************************************************)
(* natsmicromw: middleware chains around NATS micro handlers.              *)
(*                                                                         *)
(* Three specifications share this module:                                 *)
(*   Spec      services, groups and endpoints: how the middleware slices   *)
(*             of Service values are built by AddService / Use /           *)
(*             UseContext / AddGroup and what chain an endpoint runs.      *)
(*   SpecRun   one delivery: the composed handler is invoked, middleware   *)
(*             run around the terminal handler, the dispatcher normalises  *)
(*             the returned error.                                         *)
(*   SpecComp  CompressionMiddleware around a next link.                   *)
(***************************************************************************)
EXTENDS Integers, Sequences, FiniteSets, TLC

VARIABLES
    arrays,     \* heap of backing arrays of the []MiddlewareFunc slices
    svcs,       \* heap of Service values (natsmicromw.go:19-24)
    grps,       \* heap of Group values (natsmicromw.go:27-30)
    eps,        \* endpoints registered at the transport
    origin,     \* history: how each Service value was obtained
    reqs,       \* heap of Request / MicroRequest values of the last delivery
    made,       \* history: the context each request was created with
    run,        \* outcome of the last delivery (SpecRun)
    defaultCtx, \* field defaultCtx of the service owning the delivered endpoint
    compressMin,\* middleware package variable compressMin (request.go:58)
    lastSet,    \* history: the argument of the latest SetCompressMin call
    comp,       \* outcome of the last CompressionMiddleware call (SpecComp)
    tags,       \* the variable tags that RequestIdMiddleware() closes over
    xid,        \* ids the generator xid.New() has handed out
    inflight,   \* heap of the Request values of concurrent deliveries
    dlv,        \* the concurrent deliveries on one context endpoint (SpecConc)
    touched,    \* history: accesses of variables shared between deliveries
    hstrs,      \* heap of the arrays behind the []string values of headers
    hmaps,      \* heap of header maps (nats.Header / micro.Headers)
    hobjs,      \* heap of MicroRequest and MicroReply values (SpecHdr)
    hlast,      \* history: the latest header accessor call and its result
    cfgs,       \* heap of micro.EndpointConfig values the caller built
    supplied,   \* history: the handler the caller stored in each of them
    addCalls    \* history: the AddService calls made with them (SpecCfg)

vars == <<arrays, svcs, grps, eps, origin, reqs, made, run, defaultCtx,
          compressMin, lastSet, comp, tags, xid, inflight, dlv, touched,
          hstrs, hmaps, hobjs, hlast, cfgs, supplied, addCalls>>

regVars  == <<arrays, svcs, grps, eps, origin>>
runVars  == <<reqs, made, run, defaultCtx>>
compVars == <<compressMin, lastSet, comp>>
concVars == <<tags, xid, inflight, dlv, touched>>
hdrVars  == <<hstrs, hmaps, hobjs, hlast>>
cfgVars  == <<cfgs, supplied, addCalls>>

----------------------------------------------------------------------------
(* Bounds of the model *)

MaxRoots == 1       \* micro services created (AddService / AddContextService)
MaxSvcs == 4        \* Service values allocated
MaxGrps == 2        \* Group values allocated
MaxEps == 1         \* endpoints registered
MaxFns == 2         \* middleware functions passed to one call

\* The zero value of a slice element.
Nil == "nil"

\* context.Context values: nil, or the chain of (key, value) pairs from the
\* background context to the innermost context.WithValue.
NilContext == [nil |-> TRUE, vals |-> <<>>]
Background == [nil |-> FALSE, vals |-> <<>>]
WithValue(parent, key, val) == [nil |-> FALSE, vals |-> Append(parent.vals, <<key, val>>)]

\* ctx.Value(key): the innermost value attached under key, 0 if none
Value(ctx, key) ==
    LET hits == {i \in 1..Len(ctx.vals) : ctx.vals[i][1] = key}
    IN  IF hits = {} THEN 0
        ELSE ctx.vals[CHOOSE i \in hits : \A j \in hits : j <= i][2]

SeqsUpTo(S, n) == UNION {[1..k -> S] : k \in 0..n}

----------------------------------------------------------------------------
(* Go slices: a slice value is (array, len, cap); append writes into the   *)
(* shared backing array while len+n <= cap and allocates otherwise.        *)

NilSlice == [arr |-> 0, len |-> 0, cap |-> 0]

\* s[0:len]: the elements a range or index over the slice can see.
ReadSlice(arrs, sl) == [i \in 1..sl.len |-> arrs[sl.arr][i]]

\* Capacity of the array that append allocates for newLen pointer-sized
\* elements when the old capacity does not suffice (runtime growslice: double
\* below 256 elements, then round up to an allocator size class).
GrowCap(oldCap, newLen) ==
    LET want == IF newLen > 2 * oldCap THEN newLen ELSE 2 * oldCap
    IN  IF want <= 4 THEN want ELSE want + (want % 2)

\* append that first stores fns[0] over the last element the receiver sees
GoAppendOverLast(arrs, sl, fns) ==
    IF Len(fns) = 0 THEN [arrays |-> arrs, slice |-> sl]
    ELSE IF sl.len = 0
    THEN [arrays |-> Append(arrs, fns),
          slice |-> [arr |-> Len(arrs) + 1, len |-> Len(fns), cap |-> Len(fns)]]
    ELSE [arrays |-> Append([arrs EXCEPT ![sl.arr] = [@ EXCEPT ![sl.len] = fns[1]]],
                            ReadSlice(arrs, sl) \o fns),
          slice |-> [arr |-> Len(arrs) + 1, len |-> sl.len + Len(fns),
                     cap |-> sl.len + Len(fns)]]

\* append(sl, fns...)
GoAppend(arrs, sl, fns) ==
    LET n == Len(fns)
        newLen == sl.len + n
    IN  IF n = 0 THEN [arrays |-> arrs, slice |-> sl]
        ELSE IF newLen <= sl.cap
        THEN [arrays |-> [arrs EXCEPT ![sl.arr] =
                             [i \in 1..sl.cap |->
                                 IF i > sl.len /\ i <= newLen
                                 THEN fns[i - sl.len] ELSE @[i]]],
              slice |-> [arr |-> sl.arr, len |-> newLen, cap |-> sl.cap]]
        ELSE LET c == GrowCap(sl.cap, newLen)
             IN  [arrays |-> Append(arrs,
                                 [i \in 1..c |->
                                     IF i <= sl.len THEN arrs[sl.arr][i]
                                     ELSE IF i <= newLen THEN fns[i - sl.len]
                                     ELSE Nil]),
                  slice |-> [arr |-> Len(arrs) + 1, len |-> newLen, cap |-> c]]

\* The slice a variadic parameter fns ...T holds when the caller lists the
\* arguments: a fresh array of exactly that length, or nil without arguments.
Variadic(arrs, fns) ==
    IF Len(fns) = 0 THEN [arrays |-> arrs, slice |-> NilSlice]
    ELSE [arrays |-> Append(arrs, fns),
          slice |-> [arr |-> Len(arrs) + 1, len |-> Len(fns), cap |-> Len(fns)]]

----------------------------------------------------------------------------
(* Composition.  A handler value is a closure: the terminal handler, or a  *)
(* middleware closed over the next handler.                                *)

Terminal(h) == [kind |-> "H", h |-> h]
Closure(m, next) == [kind |-> "mw", mw |-> m, next |-> next]

RECURSIVE wrapFrom(_, _, _)
wrapFrom(wrapped, mws, i) ==
    IF i < 1 THEN wrapped
    ELSE wrapFrom(Closure(mws[i], wrapped), mws, i - 1)

RECURSIVE wrapForward(_, _, _)
wrapForward(wrapped, mws, i) ==
    IF i > Len(mws) THEN wrapped
    ELSE wrapForward(Closure(mws[i], wrapped), mws, i + 1)

\* wrapHandler composed with the first middleware innermost
wrapHandlerReversed(handler, mws) == wrapForward(handler, mws, 1)

\* wrapHandler that puts one more layer around what the loop built
wrapHandlerExtraLayer(handler, mws) == Closure(0, wrapFrom(handler, mws, Len(mws)))

\* wrapHandler(handler, mws...): for i := len(mws)-1; i >= 0; i--
wrapHandler(handler, mws) == wrapFrom(handler, mws, Len(mws))

\* the loop of wrapContextHandler over s.cmw, run at every delivery
wrapContextChain(handler, cmw) == wrapFrom(handler, cmw, Len(cmw))

\* The middleware of a composed handler, outermost first.
RECURSIVE Layers(_)
Layers(handler) ==
    IF handler.kind = "H" THEN <<>>
    ELSE <<handler.mw>> \o Layers(handler.next)

----------------------------------------------------------------------------
(* Services, groups and endpoints *)

NewService(s, mw, cmw, ctx) == [svc |-> s, mw |-> mw, cmw |-> cmw, defaultCtx |-> ctx]

Derivation(via, parent, args, mw, cmw) ==
    [via |-> via, parent |-> parent, args |-> args, mw |-> mw, cmw |-> cmw,
     setCtx |-> <<>>]

Endpoint(flavor, s, g, handler) ==
    [flavor |-> flavor, svc |-> s, grp |-> g, handler |-> handler]

\* Group{svc, grp}: the Service value it points to and the depth of its
\* subject prefix; from and base are history: the group it was made from
\* and the Service value held by the receiver of the AddGroup call that
\* made its micro group.
NewGroup(s, depth, from, base) ==
    [svc |-> s, depth |-> depth, from |-> from, base |-> base]

Svcs == 1..Len(svcs)
Grps == 1..Len(grps)
Eps  == 1..Len(eps)

\* Function values are named by the order in which the program passes them
\* to the API: every call registers functions not registered before.
RECURSIVE Registered(_)
Registered(k) == IF k = 0 THEN 0 ELSE Len(origin[k].args) + Registered(k - 1)

Fresh(n) == [i \in 1..n |-> Registered(Len(origin)) + i]

Roots == {s \in Svcs : origin[s].parent = 0}

\* AddService(nc, config, fns...); base: config.Endpoint carries a handler
AddService(fns, base) ==
    /\ Len(svcs) < MaxSvcs
    /\ Cardinality(Roots) < MaxRoots
    /\ base => Len(eps) < MaxEps
    /\ LET v == Variadic(arrays, fns)
           handler == IF Len(fns) > 0 /\ base
                      THEN wrapHandler(Terminal("H"), fns)
                      ELSE Terminal("H")
           s == Len(svcs) + 1
       IN  /\ arrays' = v.arrays
           /\ svcs' = Append(svcs, NewService(s, v.slice, NilSlice, NilContext))
           /\ origin' = Append(origin, Derivation("AddService", 0, fns, fns, <<>>))
           /\ eps' = IF base THEN Append(eps, Endpoint("plain", s, 0, handler))
                     ELSE eps
    /\ UNCHANGED <<grps, runVars, compVars, concVars, hdrVars, cfgVars>>

\* AddContextService(nc, config, fns...)
AddContextService(fns, base) ==
    /\ Len(svcs) < MaxSvcs
    /\ Cardinality(Roots) < MaxRoots
    /\ base => Len(eps) < MaxEps
    /\ LET v == Variadic(arrays, fns)
           s == Len(svcs) + 1
       IN  /\ arrays' = v.arrays
           /\ svcs' = Append(svcs, NewService(s, NilSlice, v.slice, NilContext))
           /\ origin' = Append(origin, Derivation("AddContextService", 0, fns, <<>>, fns))
           /\ eps' = IF base THEN Append(eps, Endpoint("plain", s, 0, Terminal("H")))
                     ELSE eps
    /\ UNCHANGED <<grps, runVars, compVars, concVars, hdrVars, cfgVars>>

\* WithMiddleware that appends fns to the context chain as well
WithMiddlewareIntoBoth(s, fns) ==
    LET a == GoAppend(arrays, svcs[s].mw, fns)
        b == GoAppend(a.arrays, svcs[s].cmw, fns)
    IN  [arrays |-> b.arrays,
         value |-> NewService(svcs[s].svc, a.slice, b.slice, svcs[s].defaultCtx)]

\* WithMiddleware that puts fns in front of the receiver's chain
WithMiddlewareInFront(s, fns) ==
    LET a == GoAppend(arrays, NilSlice, fns \o ReadSlice(arrays, svcs[s].mw))
    IN  [arrays |-> a.arrays,
         value |-> NewService(svcs[s].svc, a.slice, svcs[s].cmw, svcs[s].defaultCtx)]

\* The Service value built by (s *Service) WithMiddleware(fns...), and the
\* heap after it.
WithMiddleware(s, fns) ==
    LET a == GoAppend(arrays, svcs[s].mw, fns)
    IN  [arrays |-> a.arrays,
         value |-> NewService(svcs[s].svc, a.slice, svcs[s].cmw, svcs[s].defaultCtx)]

\* The Service value built by (s *Service) WithContextMiddleware(fns...)
WithContextMiddleware(s, fns) ==
    LET a == GoAppend(arrays, svcs[s].cmw, fns)
    IN  [arrays |-> a.arrays,
         value |-> NewService(svcs[s].svc, svcs[s].mw, a.slice, svcs[s].defaultCtx)]

\* s.WithMiddleware(fns...) / s.Use(fns...)
ServiceUse(s, fns) ==
    /\ Len(svcs) < MaxSvcs
    /\ LET r == WithMiddleware(s, fns)
       IN  /\ arrays' = r.arrays
           /\ svcs' = Append(svcs, r.value)
           /\ origin' = Append(origin,
                  Derivation("Use", s, fns,
                             ReadSlice(arrays, svcs[s].mw) \o fns,
                             ReadSlice(arrays, svcs[s].cmw)))
    /\ UNCHANGED <<grps, eps, runVars, compVars, concVars, hdrVars, cfgVars>>

\* s.WithContextMiddleware(fns...) / s.UseContext(fns...)
ServiceUseContext(s, fns) ==
    /\ Len(svcs) < MaxSvcs
    /\ LET r == WithContextMiddleware(s, fns)
       IN  /\ arrays' = r.arrays
           /\ svcs' = Append(svcs, r.value)
           /\ origin' = Append(origin,
                  Derivation("UseContext", s, fns,
                             ReadSlice(arrays, svcs[s].mw),
                             ReadSlice(arrays, svcs[s].cmw) \o fns))
    /\ UNCHANGED <<grps, eps, runVars, compVars, concVars, hdrVars, cfgVars>>

\* s.AddGroup(name): Group{s, grp}
ServiceAddGroup(s) ==
    /\ Len(grps) < MaxGrps
    /\ grps' = Append(grps, NewGroup(s, 1, 0, s))
    /\ UNCHANGED <<arrays, svcs, eps, origin, runVars, compVars, concVars, hdrVars, cfgVars>>

\* g.AddGroup that points the new group at the service AddService returned
GroupAddGroupOnRoot(g) ==
    /\ Len(grps) < MaxGrps
    /\ grps' = Append(grps, NewGroup(svcs[grps[g].svc].svc, grps[g].depth + 1, g,
                                     svcs[grps[g].svc].svc))
    /\ UNCHANGED <<arrays, svcs, eps, origin, runVars, compVars, concVars, hdrVars, cfgVars>>

\* g.AddGroup(name): Group{g.svc, grp}
GroupAddGroup(g) ==
    /\ Len(grps) < MaxGrps
    /\ grps' = Append(grps, NewGroup(grps[g].svc, grps[g].depth + 1, g, grps[g].svc))
    /\ UNCHANGED <<arrays, svcs, eps, origin, runVars, compVars, concVars, hdrVars, cfgVars>>

\* g.WithMiddleware(fns...) / g.Use(fns...): a new Group over a new Service
GroupUse(g, fns) ==
    /\ Len(svcs) < MaxSvcs
    /\ Len(grps) < MaxGrps
    /\ LET s == grps[g].svc
           r == WithMiddleware(s, fns)
       IN  /\ arrays' = r.arrays
           /\ svcs' = Append(svcs, r.value)
           /\ origin' = Append(origin,
                  Derivation("Group.Use", s, fns,
                             ReadSlice(arrays, svcs[s].mw) \o fns,
                             ReadSlice(arrays, svcs[s].cmw)))
           /\ grps' = Append(grps, NewGroup(Len(svcs) + 1, grps[g].depth, g, grps[g].base))
    /\ UNCHANGED <<eps, runVars, compVars, concVars, hdrVars, cfgVars>>

\* g.WithContextMiddleware(fns...) / g.UseContext(fns...)
GroupUseContext(g, fns) ==
    /\ Len(svcs) < MaxSvcs
    /\ Len(grps) < MaxGrps
    /\ LET s == grps[g].svc
           r == WithContextMiddleware(s, fns)
       IN  /\ arrays' = r.arrays
           /\ svcs' = Append(svcs, r.value)
           /\ origin' = Append(origin,
                  Derivation("Group.UseContext", s, fns,
                             ReadSlice(arrays, svcs[s].mw),
                             ReadSlice(arrays, svcs[s].cmw) \o fns))
           /\ grps' = Append(grps, NewGroup(Len(svcs) + 1, grps[g].depth, g, grps[g].base))
    /\ UNCHANGED <<eps, runVars, compVars, concVars, hdrVars, cfgVars>>

\* s.AddEndpoint that registers the handler as it was given
ServiceAddEndpointBare(s) ==
    /\ Len(eps) < MaxEps
    /\ eps' = Append(eps, Endpoint("plain", s, 0, Terminal("H")))
    /\ UNCHANGED <<arrays, svcs, grps, origin, runVars, compVars, concVars, hdrVars, cfgVars>>

\* s.AddEndpoint(name, handler): wrapHandler(handler, s.mw...) is registered
ServiceAddEndpoint(s) ==
    /\ Len(eps) < MaxEps
    /\ eps' = Append(eps, Endpoint("plain", s, 0,
                  wrapHandler(Terminal("H"), ReadSlice(arrays, svcs[s].mw))))
    /\ UNCHANGED <<arrays, svcs, grps, origin, runVars, compVars, concVars, hdrVars, cfgVars>>

\* s.AddContextEndpoint(name, handler): the registered closure keeps s and handler
ServiceAddContextEndpoint(s) ==
    /\ Len(eps) < MaxEps
    /\ eps' = Append(eps, Endpoint("context", s, 0, Terminal("H")))
    /\ UNCHANGED <<arrays, svcs, grps, origin, runVars, compVars, concVars, hdrVars, cfgVars>>

\* g.AddEndpoint(name, handler): wrapHandler(handler, g.svc.mw...)
GroupAddEndpoint(g) ==
    /\ Len(eps) < MaxEps
    /\ eps' = Append(eps, Endpoint("plain", grps[g].svc, g,
                  wrapHandler(Terminal("H"), ReadSlice(arrays, svcs[grps[g].svc].mw))))
    /\ UNCHANGED <<arrays, svcs, grps, origin, runVars, compVars, concVars, hdrVars, cfgVars>>

\* g.AddContextEndpoint(name, handler): wrapContextHandler(g.svc, handler)
GroupAddContextEndpoint(g) ==
    /\ Len(eps) < MaxEps
    /\ eps' = Append(eps, Endpoint("context", grps[g].svc, g, Terminal("H")))
    /\ UNCHANGED <<arrays, svcs, grps, origin, runVars, compVars, concVars, hdrVars, cfgVars>>

\* The context of a delivery when the default context is never looked at
DeliveryContextBackground(dctx) == Background

\* The context of a delivery: s.defaultCtx if it is not nil, else
\* context.Background()
DeliveryContext(dctx) == IF ~dctx.nil THEN dctx ELSE Background

\* s.SetDefaultContext(ctx) on the Service value s (setCtx: history, the
\* argument of the latest call on s)
ServiceSetDefaultContext(s, ctx) ==
    /\ origin[s].setCtx # <<ctx>>
    /\ svcs' = [svcs EXCEPT ![s].defaultCtx = ctx]
    /\ origin' = [origin EXCEPT ![s].setCtx = <<ctx>>]
    /\ UNCHANGED <<arrays, grps, eps, runVars, compVars, concVars, hdrVars, cfgVars>>

\* The context of the request a delivery to the context endpoint e builds:
\* wrapContextHandler reads defaultCtx of the value the endpoint was
\* registered through.
DeliveredContext(e) == DeliveryContext(svcs[eps[e].svc].defaultCtx)

\* The handler a delivery to endpoint e invokes now: the closure composed at
\* registration (plain), or the one wrapContextHandler composes from s.cmw
\* at the delivery (context).
Composed(e) ==
    IF eps[e].flavor = "plain" THEN eps[e].handler
    ELSE wrapContextChain(eps[e].handler, ReadSlice(arrays, svcs[eps[e].svc].cmw))

\* The middleware chain endpoint e runs, outermost first.
ChainRun(e) == Layers(Composed(e))



----------------------------------------------------------------------------
(* Texts, errors and the JSON encoding of HandlerError.                    *)
(* A string is a sequence of chunks; a chunk is a run of ordinary          *)
(* characters or one character that encoding/json treats specially.        *)

MaxText == 2        \* chunks in a description

BadByte == "0xFF"           \* a byte that is not valid UTF-8
Replacement == "U+FFFD"     \* the Unicode replacement character

Chunks == {"request failed", "\"", "<", BadByte}
Texts == SeqsUpTo(Chunks, MaxText)
Codes == {<<"500">>, <<"404">>, <<"\"">>, <<>>}

\* A *HandlerError: nil, or the address of a struct{Description, Code}.
NilPtr == [nil |-> TRUE, Description |-> <<>>, Code |-> <<>>]
Struct(description, code) == [nil |-> FALSE, Description |-> description, Code |-> code]

\* errors.New(msg)
ErrorString(msg) == [type |-> "*errorString", msg |-> msg, ptr |-> NilPtr]
\* &HandlerError{Description, Code}
HandlerError(description, code) ==
    [type |-> "*HandlerError", msg |-> <<>>, ptr |-> Struct(description, code)]
\* an error interface holding (*HandlerError)(nil)
NilHandlerError == [type |-> "*HandlerError", msg |-> <<>>, ptr |-> NilPtr]
\* fmt.Errorf("mw: %w", handlerErr): an error of another type that wraps
\* the *HandlerError ptr
WrapError(ptr) == [type |-> "*wrapError", msg |-> <<"mw: ">> \o ptr.Description, ptr |-> ptr]
\* the nil error interface
NoError == [type |-> "nil", msg |-> <<>>, ptr |-> NilPtr]

Errors ==
    {ErrorString(t) : t \in Texts}
    \cup {HandlerError(t, c) : t \in Texts, c \in Codes}
    \cup {NilHandlerError}

\* (e *HandlerError) Error() / (e *errorString) Error()
ErrorText(err) ==
    IF err.type = "*HandlerError" THEN err.ptr.Description ELSE err.msg

\* encoding/json: the encoding of one character inside a JSON string
Escape(c) ==
    CASE c = "\"" -> "\\\""
      [] c = "\\" -> "\\\\"
      [] c = "<" -> "\\u003c"
      [] c = BadByte -> "\\ufffd"
      [] OTHER -> c

Unescape(c) ==
    CASE c = "\\\"" -> "\""
      [] c = "\\\\" -> "\\"
      [] c = "\\u003c" -> "<"
      [] c = "\\ufffd" -> Replacement
      [] OTHER -> c

JsonString(t) == <<"\"">> \o [i \in 1..Len(t) |-> Escape(t[i])] \o <<"\"">>

\* json.Marshal with the fields of HandlerError in the other order
MarshalCodeFirst(ptr) ==
    IF ptr.nil THEN <<"null">>
    ELSE <<"{", "\"code\":">> \o JsonString(ptr.Code)
         \o <<",", "\"description\":">> \o JsonString(ptr.Description) \o <<"}">>

\* json.Marshal(handlerErr): the struct's fields in declaration order under
\* their json tags; a nil pointer encodes as null
Marshal(ptr) ==
    IF ptr.nil THEN <<"null">>
    ELSE <<"{", "\"description\":">> \o JsonString(ptr.Description)
         \o <<",", "\"code\":">> \o JsonString(ptr.Code) \o <<"}">>

\* Index of the quote that closes the JSON string opened before index i.
RECURSIVE ClosingQuote(_, _)
ClosingQuote(b, i) ==
    IF i > Len(b) THEN 0
    ELSE IF b[i] = "\"" THEN i
    ELSE ClosingQuote(b, i + 1)

\* The members "key":"string" of a JSON object from index i on, as a
\* sequence of <<key, text>>; <<"error">> as last element if malformed.
RECURSIVE Members(_, _)
Members(b, i) ==
    IF i + 1 > Len(b) \/ b[i] \notin {"\"description\":", "\"code\":"} \/ b[i + 1] # "\""
    THEN <<"error">>
    ELSE LET j == ClosingQuote(b, i + 2)
             text == [k \in 1..(j - i - 2) |-> Unescape(b[i + 1 + k])]
         IN  IF j = 0 \/ j + 1 > Len(b) THEN <<"error">>
             ELSE IF b[j + 1] = "}"
                  THEN IF j + 1 = Len(b) THEN <<<<b[i], text>>>> ELSE <<"error">>
             ELSE IF b[j + 1] = ","
                  THEN <<<<b[i], text>>>> \o Members(b, j + 2)
             ELSE <<"error">>

\* json.Unmarshal(body, &HandlerError{}) as a caller decodes the payload
Unmarshal(b) ==
    IF Len(b) < 2 \/ b[1] # "{" THEN [ok |-> FALSE]
    ELSE LET ms == Members(b, 2)
             Field(key) ==
                 LET hits == {k \in 1..Len(ms) : ms[k][1] = key}
                 IN  IF hits = {} THEN <<>>
                     ELSE ms[CHOOSE k \in hits : \A l \in hits : l <= k][2]
         IN  IF ms[Len(ms)] = "error" THEN [ok |-> FALSE]
             ELSE [ok |-> TRUE,
                   Description |-> Field("\"description\":"),
                   Code |-> Field("\"code\":")]

----------------------------------------------------------------------------
(* Requests *)

MaxReqs == 4        \* request values alive at once

\* Request{micro.Request, ctx}: msg names the embedded transport request
Request(msg, ctx) == [type |-> "Request", msg |-> msg, ctx |-> ctx]

\* newMicroRequest(req, ctx): the fields of the transport request, copied
newMicroRequest(msg, ctx) ==
    [type |-> "MicroRequest", Subject |-> msg, Reply |-> msg, Headers |-> msg,
     Data |-> msg, ctx |-> ctx]

\* r.Context()
Context(heap, r) == heap[r].ctx

\* WithContext that stores ctx in the receiver and returns the receiver
RequestWithContextInPlace(heap, r, ctx) ==
    [heap |-> [heap EXCEPT ![r].ctx = ctx], ptr |-> r]

\* (r *Request) WithContext(ctx): &Request{r.Request, ctx}
RequestWithContext(heap, r, ctx) ==
    [heap |-> Append(heap, Request(heap[r].msg, ctx)), ptr |-> Len(heap) + 1]

\* (r *MicroRequest) WithContext(ctx): a new MicroRequest with r's fields
MicroRequestWithContext(heap, r, ctx) ==
    [heap |-> Append(heap, [heap[r] EXCEPT !.ctx = ctx]), ptr |-> Len(heap) + 1]

\* History kept beside the heap: the context a request value was created
\* with and the request it was derived from (0: built from the transport).
Made(ctx, from) == [ctx |-> ctx, from |-> from]

\* The history after an operation that returned request ptr carrying ctx.
Remember(hist, ptr, ctx, from) ==
    IF ptr > Len(hist) THEN Append(hist, Made(ctx, from)) ELSE hist

----------------------------------------------------------------------------
(* One delivery *)

MaxChain == 2       \* middleware in the chain of the endpoint delivered to

Chains == SeqsUpTo(1..MaxChain, MaxChain)

\* What the application's terminal handler does: whether it responds, and
\* the error it returns.
Handlers == [respond : BOOLEAN, err : Errors \cup {NoError}]

Event(ev, m, ctx) == [ev |-> ev, mw |-> m, ctx |-> ctx]

Sent(op, by, code, description, data) ==
    [op |-> op, by |-> by, code |-> code, description |-> description, data |-> data]

\* The terminal handler of a context endpoint, given request r.
CallHandler(h, r, st) ==
    [st EXCEPT !.trace = Append(@, Event("H", 0, Context(st.heap, r))),
               !.sent = IF h.respond
                        THEN Append(@, Sent("Respond", "handler", <<>>, <<>>, <<"data">>))
                        ELSE @,
               !.ret = h.err]

\* What a context middleware does with the error next returned.
Acts == {"pass", "replace", "suppress"}

\* A middleware that returns the error of next whatever it is told to do
ReturnsInner(act, inner) == inner

\* The error a middleware returns when next returned inner: a nil error
\* stays nil; "pass" returns the error as it is, "suppress" returns nil,
\* "replace" returns another error, which wraps a HandlerError it was given.
Returns(act, inner) ==
    IF inner.type = "nil" \/ act = "pass" THEN inner
    ELSE IF act = "suppress" THEN NoError
    ELSE IF inner.type = "*HandlerError" /\ ~inner.ptr.nil THEN WrapError(inner.ptr)
    ELSE ErrorString(<<"replaced">>)

\* A composed ContextHandlerFunc called with request r.  A middleware
\* attaches a value under its own key to a derived request, calls next with
\* the derived request and returns, after its post-logic, the error
\* st.acts tells it to (the shape of middleware1/middleware2 of
\* TestMiddlewareChain and of RequestIdMiddleware).
RECURSIVE Call(_, _, _)
Call(handler, r, st) ==
    IF handler.kind = "H" THEN CallHandler(handler.h, r, st)
    ELSE LET m == handler.mw
             ctx == WithValue(Context(st.heap, r), m, st.id)
             w == RequestWithContext(st.heap, r, ctx)
             before == [st EXCEPT
                          !.trace = Append(@, Event("pre", m, Context(st.heap, r))),
                          !.heap = w.heap,
                          !.made = Remember(@, w.ptr, ctx, r)]
             after == Call(handler.next, w.ptr, before)
         IN  [after EXCEPT
                !.trace = Append(@, Event("post", m, Context(after.heap, r))),
                !.ret = Returns(st.acts[m], @)]

\* A composed micro.Handler handling the transport request: a plain
\* middleware runs its logic before and after next.Handle(req) (the shape of
\* DurationMiddleware and MetricsMiddleware).
RECURSIVE Handle(_, _)
Handle(handler, st) ==
    IF handler.kind = "H"
    THEN [st EXCEPT !.trace = Append(@, Event("H", 0, NilContext)),
                    !.sent = IF handler.h.respond
                             THEN Append(@, Sent("Respond", "handler", <<>>, <<>>, <<"data">>))
                             ELSE @]
    ELSE LET after == Handle(handler.next,
                        [st EXCEPT !.trace = Append(@, Event("pre", handler.mw, NilContext))])
         IN  [after EXCEPT !.trace = Append(@, Event("post", handler.mw, NilContext))]

\* Normalize that builds a HandlerError with the default code for every error
NormalizeIgnoringType(err) == Struct(ErrorText(err), <<"500">>)

\* err.(*HandlerError), and the HandlerError built when the assertion fails
Normalize(err) ==
    IF err.type = "*HandlerError" THEN err.ptr
    ELSE Struct(ErrorText(err), <<"500">>)

\* Dispatch without the err != nil test
DispatchUnconditional(err) ==
    LET handlerErr == IF err.type = "*HandlerError" THEN err.ptr
                      ELSE Struct(err.msg, <<"500">>)
    IN  [crashed |-> handlerErr.nil,
         sent |-> IF handlerErr.nil THEN <<>>
                  ELSE <<Sent("Error", "dispatcher", handlerErr.Code,
                              handlerErr.Description, <<"null">>)>>]

\* What the dispatcher does with the error the chain returned: nothing for
\* nil; otherwise req.Error(code, description, errData), whose arguments read
\* the fields through handlerErr and panic if that pointer is nil.
Dispatch(err) ==
    IF err.type = "nil" THEN [crashed |-> FALSE, sent |-> <<>>]
    ELSE LET handlerErr == Normalize(err)
             errData == Marshal(handlerErr)
         IN  IF handlerErr.nil THEN [crashed |-> TRUE, sent |-> <<>>]
             ELSE [crashed |-> FALSE,
                   sent |-> <<Sent("Error", "dispatcher", handlerErr.Code,
                                   handlerErr.Description, errData)>>]

Idle ==
    [flavor |-> "none", mws |-> <<>>, h |-> [respond |-> FALSE, err |-> NoError],
     ctx |-> NilContext, id |-> 0, trace |-> <<>>, sent |-> <<>>, err |-> NoError,
     crashed |-> FALSE, acts |-> <<>>, log |-> <<>>]

\* No delivery is in progress or under observation and none of its request
\* values is alive.
Quiet == run = Idle /\ reqs = <<>>

\* A delivery to a context endpoint of a service whose context chain reads
\* cmw and whose default context is dctx: the closure wrapContextHandler
\* returns.  acts tells what each middleware does with an error; log lists
\* what happened in order, the steps of the chain and then the report.
HandleContext(cmw, dctx, h, id, acts) ==
    LET ctx == DeliveryContext(dctx)
        wrappedCtxHandler == wrapContextChain(Terminal(h), cmw)
        st == Call(wrappedCtxHandler, 1,
                   [heap |-> <<Request(id, ctx)>>, made |-> <<Made(ctx, 0)>>,
                    id |-> id, trace |-> <<>>, sent |-> <<>>, ret |-> NoError,
                    acts |-> acts])
        d == Dispatch(st.ret)
    IN  /\ Quiet
        /\ reqs' = st.heap
        /\ made' = st.made
        /\ run' = [flavor |-> "context", mws |-> cmw, h |-> h, ctx |-> ctx, id |-> id,
                   trace |-> st.trace, sent |-> st.sent \o d.sent, err |-> st.ret,
                   crashed |-> d.crashed, acts |-> acts,
                   log |-> [i \in 1..Len(st.trace) |-> st.trace[i].ev]
                           \o [i \in 1..Len(d.sent) |-> "report"]]
        /\ UNCHANGED <<defaultCtx, regVars, compVars, concVars, hdrVars, cfgVars>>

\* A delivery to a plain endpoint registered with wrapHandler(handler, mws...)
HandlePlain(mws, h, id) ==
    LET st == Handle(wrapHandler(Terminal(h), mws),
                     [id |-> id, trace |-> <<>>, sent |-> <<>>])
    IN  /\ Quiet
        /\ run' = [flavor |-> "plain", mws |-> mws, h |-> h, ctx |-> NilContext,
                   id |-> id, trace |-> st.trace, sent |-> st.sent, err |-> NoError,
                   crashed |-> FALSE, acts |-> <<>>,
                   log |-> [i \in 1..Len(st.trace) |-> st.trace[i].ev]]
        /\ reqs' = <<>>
        /\ made' = <<>>
        /\ UNCHANGED <<defaultCtx, regVars, compVars, concVars, hdrVars, cfgVars>>

\* The delivery is over and its request values are dropped.
Done ==
    /\ ~Quiet
    /\ run' = Idle
    /\ reqs' = <<>>
    /\ made' = <<>>
    /\ UNCHANGED <<defaultCtx, regVars, compVars, concVars, hdrVars, cfgVars>>

\* Code holding request r derives another one: r.WithContext(
\* context.WithValue(r.Context(), key, val)).  No delivery is observed.
DeriveRequest(r, key, val) ==
    /\ Len(reqs) < MaxReqs
    /\ LET ctx == WithValue(Context(reqs, r), key, val)
           w == IF reqs[r].type = "Request"
                THEN RequestWithContext(reqs, r, ctx)
                ELSE MicroRequestWithContext(reqs, r, ctx)
       IN  /\ reqs' = w.heap
           /\ made' = Remember(made, w.ptr, ctx, r)
    /\ run' = Idle
    /\ UNCHANGED <<defaultCtx, regVars, compVars, concVars, hdrVars, cfgVars>>

\* The micro flavor builds its request from the transport request.
NewMicroRequest(msg, ctx) ==
    /\ Len(reqs) < MaxReqs
    /\ reqs' = Append(reqs, newMicroRequest(msg, ctx))
    /\ made' = Append(made, Made(ctx, 0))
    /\ run' = Idle
    /\ UNCHANGED <<defaultCtx, regVars, compVars, concVars, hdrVars, cfgVars>>

\* s.SetDefaultContext(ctx)
SetDefaultContext(ctx) ==
    /\ Quiet
    /\ defaultCtx # ctx
    /\ defaultCtx' = ctx
    /\ UNCHANGED <<reqs, made, run, regVars, compVars, concVars, hdrVars, cfgVars>>

Ids == 1..2
DefaultContexts == {NilContext, WithValue(Background, 0, 1)}



----------------------------------------------------------------------------
(* Compression middleware (middleware package, request.go:31-188).         *)
(* A payload is a sequence of bytes.  The codecs of compress/gzip and      *)
(* compress/flate are modelled by framings that keep what the middleware   *)
(* depends on: the encoded form differs from the data, each decoder         *)
(* accepts exactly its own framing and fails on a stream that is cut or    *)
(* corrupt.  gzip: a magic byte, the data, the data's length as trailer.   *)
(* deflate: the data's length, then the data.                              *)

MaxPayload == 3     \* bytes in a request payload
MaxMin == 3         \* largest threshold SetCompressMin is called with

DefaultCompressMin == 1000

PayloadBytes == {0, 1, 31}
Payloads == SeqsUpTo(PayloadBytes, MaxPayload)

HeaderAcceptEncoding == "accept-encoding"
HeaderEncoding == "encoding"
CompressionNone == ""
CompressionGzip == "gzip"
CompressionDeflate == "deflate"
ErrUnsupportedEncoding == "unsupported encoding"
NoErr == ""

Encodings == {CompressionNone, CompressionGzip, CompressionDeflate, "bzip2"}

\* nats.Header / micro.Headers: a map from key to the list of its values
NoHeaders == <<>>
\* h.Get(key): the first value under key, "" if there is none
HeaderGet(h, key) ==
    IF key \in DOMAIN h /\ Len(h[key]) > 0 THEN h[key][1] ELSE ""
\* h.Set(key, value)
HeaderSet(h, key, value) ==
    [k \in DOMAIN h \cup {key} |-> IF k = key THEN <<value>> ELSE h[k]]

\* The headers of a transport message that carries the given values ("": the
\* header is not sent).
RequestHeaders(encoding, accept) ==
    [k \in {key \in {HeaderEncoding, HeaderAcceptEncoding} :
               (IF key = HeaderEncoding THEN encoding ELSE accept) # ""}
        |-> <<IF k = HeaderEncoding THEN encoding ELSE accept>>]

Take(data, n) == [i \in 1..n |-> data[i]]
Drop(data, n) == [i \in 1..(Len(data) - n) |-> data[i + n]]

compressGzip(data) == <<31>> \o data \o <<Len(data)>>
compressDeflate(data) == <<Len(data)>> \o data

\* decompressGzip that hands the trailer on with the data
decompressGzipWithTrailer(data) ==
    IF Len(data) = 0 THEN [data |-> <<>>, err |-> "EOF"]
    ELSE IF data[1] # 31 THEN [data |-> <<>>, err |-> "gzip: invalid header"]
    ELSE [data |-> Drop(data, 1), err |-> NoErr]

\* decompressGzip(data): gzip.NewReader fails on a missing or wrong header,
\* io.ReadAll on a stream that ends early or whose trailer does not match.
decompressGzip(data) ==
    IF Len(data) = 0 THEN [data |-> <<>>, err |-> "EOF"]
    ELSE IF data[1] # 31 THEN [data |-> <<>>, err |-> "gzip: invalid header"]
    ELSE IF Len(data) = 1 THEN [data |-> <<>>, err |-> "unexpected EOF"]
    ELSE LET body == Take(Drop(data, 1), Len(data) - 2)
         IN  IF data[Len(data)] # Len(body)
             THEN [data |-> body, err |-> "gzip: invalid checksum"]
             ELSE [data |-> body, err |-> NoErr]

\* decompressDeflate(data): io.ReadAll returns what was read and the error
decompressDeflate(data) ==
    IF Len(data) = 0 THEN [data |-> <<>>, err |-> "unexpected EOF"]
    ELSE IF Len(data) - 1 < data[1]
         THEN [data |-> Drop(data, 1), err |-> "unexpected EOF"]
    ELSE [data |-> Take(Drop(data, 1), data[1]), err |-> NoErr]

\* readCompressedData that hands data of an unknown encoding on as it is
readCompressedDataLenient(encoding, data) ==
    IF encoding = "gzip" THEN decompressGzip(data)
    ELSE IF encoding = "deflate" THEN decompressDeflate(data)
    ELSE [data |-> data, err |-> NoErr]

\* readCompressedData(encoding, data)
readCompressedData(encoding, data) ==
    IF encoding = "gzip" THEN decompressGzip(data)
    ELSE IF encoding = "deflate" THEN decompressDeflate(data)
    ELSE IF encoding # "" THEN [data |-> <<>>, err |-> ErrUnsupportedEncoding]
    ELSE [data |-> data, err |-> NoErr]

\* decompressRequest that stores the decoder's output before testing err
decompressRequestEager(req) ==
    LET d == readCompressedData(HeaderGet(req.Headers, HeaderEncoding), req.Data)
    IN  [req |-> [req EXCEPT !.Data = d.data], err |-> d.err]

\* decompressRequest(req): req.Data is replaced only when decoding succeeded
decompressRequest(req) ==
    LET d == readCompressedData(HeaderGet(req.Headers, HeaderEncoding), req.Data)
    IN  IF d.err # NoErr THEN [req |-> req, err |-> d.err]
        ELSE [req |-> [req EXCEPT !.Data = d.data], err |-> NoErr]

\* *MicroReply: nil, or a reply with headers and data
NilReply == [nil |-> TRUE, Headers |-> NoHeaders, Data |-> <<>>]
\* NewMicroReply(data)
NewMicroReply(data) == [nil |-> FALSE, Headers |-> NoHeaders, Data |-> data]

\* compressReply without the test of the threshold
compressReplyAlways(compression, reply, min) ==
    IF compression = CompressionGzip
    THEN [reply |-> [reply EXCEPT !.Data = compressGzip(reply.Data),
                                  !.Headers = HeaderSet(@, HeaderEncoding, compression)],
          err |-> NoErr]
    ELSE IF compression = CompressionDeflate
    THEN [reply |-> [reply EXCEPT !.Data = compressDeflate(reply.Data),
                                  !.Headers = HeaderSet(@, HeaderEncoding, compression)],
          err |-> NoErr]
    ELSE [reply |-> reply, err |-> NoErr]

\* compressReply that also skips a reply of exactly the threshold's length
compressReplyAbove(compression, reply, min) ==
    IF Len(reply.Data) <= min THEN [reply |-> reply, err |-> NoErr]
    ELSE compressReplyAlways(compression, reply, min)

\* compressReply that falls back on gzip when no codec was asked for
compressReplyDefaultGzip(compression, reply, min) ==
    IF Len(reply.Data) < min THEN [reply |-> reply, err |-> NoErr]
    ELSE compressReplyAlways(IF compression = CompressionDeflate
                             THEN CompressionDeflate ELSE CompressionGzip,
                             reply, min)

\* compressReply(compression, reply) with the threshold min that
\* GetCompressMin() returns
compressReply(compression, reply, min) ==
    IF Len(reply.Data) < min THEN [reply |-> reply, err |-> NoErr]
    ELSE IF compression = CompressionGzip
         THEN [reply |-> [reply EXCEPT !.Data = compressGzip(reply.Data),
                                       !.Headers = HeaderSet(@, HeaderEncoding, compression)],
               err |-> NoErr]
    ELSE IF compression = CompressionDeflate
         THEN [reply |-> [reply EXCEPT !.Data = compressDeflate(reply.Data),
                                       !.Headers = HeaderSet(@, HeaderEncoding, compression)],
               err |-> NoErr]
    ELSE [reply |-> reply, err |-> NoErr]

\* A threshold that stays what it was when the package was loaded
GetCompressMinInitial == DefaultCompressMin

\* GetCompressMin()
GetCompressMin == compressMin

\* NewMicroReplyFromRequest(data, req): the reply starts with the request's
\* headers.
NewMicroReplyFromRequest(data, req) ==
    [nil |-> FALSE, Headers |-> req.Headers, Data |-> data]

\* The outbound encoding read from the request's encoding header
AcceptFromEncoding(req) == HeaderGet(req.Headers, HeaderEncoding)

\* CompressionType(req.HeaderGet(HeaderAcceptEncoding))
Accept(req) == HeaderGet(req.Headers, HeaderAcceptEncoding)

\* The outbound stage that compresses whatever next returned
FinishAlways(res, accept, min) ==
    LET c == compressReply(accept, res.reply, min)
    IN  [object |-> c.reply, reply |-> IF res.err # NoErr THEN NilReply ELSE c.reply,
         err |-> res.err, panic |-> FALSE]

\* CompressionMiddleware(next)(req) after next returned res: the error of
\* next is returned as it is with a nil reply, otherwise compressReply works
\* on the reply object in place.  object is the reply object next returned
\* as the middleware leaves it, reply and err are what the middleware returns.
\* compressReply begins with len(reply.Data): called with a nil reply it
\* panics and the middleware does not return.
Finish(res, accept, min) ==
    IF res.err # NoErr
    THEN [object |-> res.reply, reply |-> NilReply, err |-> res.err, panic |-> FALSE]
    ELSE IF res.reply.nil
    THEN [object |-> NilReply, reply |-> NilReply, err |-> NoErr, panic |-> TRUE]
    ELSE LET c == compressReply(accept, res.reply, min)
         IN  IF c.err # NoErr
             THEN [object |-> c.reply, reply |-> NilReply, err |-> c.err, panic |-> FALSE]
             ELSE [object |-> c.reply, reply |-> c.reply, err |-> NoErr, panic |-> FALSE]

\* What the next link does with the request it is called with: it echoes
\* the payload in a reply built by NewMicroReply or NewMicroReplyFromRequest,
\* or it fails, with or without a reply object, or it returns neither a reply
\* nor an error, or it is CompressionMiddleware once more around a handler
\* that echoes.  seen is history: the payload the terminal handler was
\* called with, if it was called.
NextLinks == {"echo", "echoFrom", "fail", "replyAndFail", "nothing", "compression"}

CallNext(link, req) ==
    IF link = "echo"
    THEN [reply |-> NewMicroReply(req.Data), err |-> NoErr, seen |-> <<req.Data>>]
    ELSE IF link = "echoFrom"
    THEN [reply |-> NewMicroReplyFromRequest(req.Data, req), err |-> NoErr,
          seen |-> <<req.Data>>]
    ELSE IF link = "replyAndFail"
    THEN [reply |-> NewMicroReplyFromRequest(req.Data, req), err |-> "handler failed",
          seen |-> <<req.Data>>]
    ELSE IF link = "nothing"
    THEN [reply |-> NilReply, err |-> NoErr, seen |-> <<req.Data>>]
    ELSE IF link = "compression"
    THEN LET d == decompressRequest(req)
             f == Finish([reply |-> NewMicroReply(d.req.Data), err |-> NoErr],
                         Accept(d.req), GetCompressMin)
         IN  IF d.err # NoErr THEN [reply |-> NilReply, err |-> d.err, seen |-> <<>>]
             ELSE [reply |-> f.reply, err |-> f.err, seen |-> <<d.req.Data>>]
    ELSE [reply |-> NilReply, err |-> "handler failed", seen |-> <<req.Data>>]

\* History of the call: handed is the reply as next returned it, minAtEntry
\* and min are compressMin when the call began and at its outbound stage.
IdleComp ==
    [state |-> "idle", received |-> [Headers |-> NoHeaders, Data |-> <<>>],
     req |-> [Headers |-> NoHeaders, Data |-> <<>>], called |-> FALSE,
     link |-> "", minAtEntry |-> 0, min |-> 0, handed |-> NilReply, object |-> NilReply,
     reply |-> NilReply, err |-> NoErr, seen |-> <<>>]

\* CompressionMiddleware(next)(req) up to the call of next: the inbound
\* stage.  A failed decompressRequest returns (nil, err) at once.
Receive(encoding, accept, data) ==
    /\ comp.state = "idle"
    /\ LET req == [Headers |-> RequestHeaders(encoding, accept), Data |-> data]
           d == decompressRequest(req)
       IN  comp' = IF d.err # NoErr
                   THEN [IdleComp EXCEPT !.state = "returned", !.received = req,
                                         !.minAtEntry = compressMin,
                                         !.req = d.req, !.err = d.err]
                   ELSE [IdleComp EXCEPT !.state = "next", !.received = req,
                                         !.minAtEntry = compressMin,
                                         !.req = d.req, !.called = TRUE]
    /\ UNCHANGED <<compressMin, lastSet, regVars, runVars, concVars, hdrVars, cfgVars>>

\* next returns and the middleware finishes with the request's
\* accept-encoding and the threshold of this moment.
NextReturns(link) ==
    /\ comp.state = "next"
    /\ LET res == CallNext(link, comp.req)
           f == Finish(res, Accept(comp.req), GetCompressMin)
       IN  comp' = [comp EXCEPT !.state = IF f.panic THEN "panicked" ELSE "returned",
                                !.link = link,
                                !.min = compressMin, !.handed = res.reply,
                                !.object = f.object, !.reply = f.reply,
                                !.err = f.err, !.seen = res.seen]
    /\ UNCHANGED <<compressMin, lastSet, regVars, runVars, concVars, hdrVars, cfgVars>>

\* The caller has taken the result, or the panic has unwound.
Returned ==
    /\ comp.state \in {"returned", "panicked"}
    /\ comp' = IdleComp
    /\ UNCHANGED <<compressMin, lastSet, regVars, runVars, concVars, hdrVars, cfgVars>>

\* SetCompressMin(minBytes)
SetCompressMin(minBytes) ==
    /\ compressMin' = minBytes
    /\ lastSet' = <<minBytes>>
    /\ UNCHANGED <<comp, regVars, runVars, concVars, hdrVars, cfgVars>>

----------------------------------------------------------------------------
(* Concurrent deliveries on one context endpoint                            *)
(*                                                                          *)
(* The endpoint was registered on a service whose context chain is          *)
(* [RequestIdMiddleware(tags...), mark]: the request id middleware of the   *)
(* repository, called without tags or with the tags of CustomTags, and a    *)
(* middleware without state.  The                                           *)
(* transport runs each delivery on its own goroutine; a step is one access  *)
(* of shared memory or one call.  wrapContextHandler composes the chain for *)
(* every delivery, so the factory returned by RequestIdMiddleware() runs    *)
(* once per delivery and tests and assigns the captured variable tags.      *)
(* tags is a slice header of several words: it is written word by word, in  *)
(* an order the build chooses, and a reader can meet it half written.       *)

MaxInFlight == 2    \* deliveries on the endpoint

\* requestIdContextKey{}
RequestIdKey == "requestIdContextKey"

\* []string{"request_id", "Request_id", "Request_Id", "REQUEST_ID"}
DefaultTags == <<"request_id", "Request_id", "Request_Id", "REQUEST_ID">>

\* The slice header of tags: ptr names the array (0: nil, d: the one the
\* delivery d allocated), len its length.
NilTags == [ptr |-> 0, len |-> 0]

\* RequestIdMiddleware("reqid", "X-Request-Id")
CustomTags == <<"reqid", "X-Request-Id">>

\* The array behind the variadic argument of that call.
CustomPtr == MaxInFlight + 1

\* The strings a range over the slice header t visits.
TagsAt(t) == SubSeq(IF t.ptr = CustomPtr THEN CustomTags ELSE DefaultTags, 1, t.len)

\* The request ids the requester of delivery d puts in its headers (a
\* request id is a number here, 0 the empty string)
GivenId(d) == 100 + d
OtherId(d) == 200 + d

\* The headers the transport message of delivery d can carry.
HeadersOf(d) ==
    { NoHeaders,
      "request_id" :> <<GivenId(d)>>,
      "Request_Id" :> <<GivenId(d)>>,
      "request_ID" :> <<GivenId(d)>>,
      "reqid" :> <<GivenId(d)>>,
      "request_id" :> <<GivenId(d)>> @@ "REQUEST_ID" :> <<OtherId(d)>>,
      "request_id" :> <<0>> @@ "Request_id" :> <<GivenId(d), OtherId(d)>>,
      "Reqid" :> <<GivenId(d)>> @@ "X-Request-Id" :> <<OtherId(d)>> }

\* req.Headers().Get(tag)
HeaderGetId(h, tag) ==
    IF tag \in DOMAIN h /\ Len(h[tag]) > 0 THEN h[tag][1] ELSE 0

\* The loop over the tags without its break
FindRequestIdNoBreak(h, ts, i) ==
    IF Len(ts) = 0 THEN 0 ELSE HeaderGetId(h, ts[Len(ts)])

\* for _, tag := range tags: the first non-empty req.Headers().Get(tag),
\* from the i-th tag on
RECURSIVE FindRequestId(_, _, _)
FindRequestId(h, ts, i) ==
    IF i > Len(ts) THEN 0
    ELSE IF HeaderGetId(h, ts[i]) # 0 THEN HeaderGetId(h, ts[i])
    ELSE FindRequestId(h, ts, i + 1)
\* xid.New(): an id no other call returns
XidNew(n) == n + 1

Deliveries == 1..MaxInFlight

NotDelivered ==
    [pc |-> "idle", hdr |-> NoHeaders, cur |-> 0, first |-> "", met |-> {},
     attached |-> 0, got |-> 0, order |-> <<>>]

InFlight == {d \in Deliveries : dlv[d].pc \notin {"idle", "done", "crashed"}}

\* An access of the shared variable v by delivery d
Access(v, d, kind) == [var |-> v, by |-> d, kind |-> kind]

\* The middleware that keeps the context in one place shared by all requests
AttachRequestIdShared(heap, r, id) ==
    [heap |-> [i \in DOMAIN heap |->
                   [heap[i] EXCEPT !.ctx = WithValue(Background, RequestIdKey, id)]],
     ptr |-> r]

\* ctx := context.WithValue(req.Context(), requestIdContextKey{}, requestId);
\* req.WithContext(ctx)
AttachRequestId(heap, r, id) ==
    RequestWithContext(heap, r, WithValue(Context(heap, r), RequestIdKey, id))

\* RequestIdFromContext(ctx)
RequestIdFromContext(ctx) == Value(ctx, RequestIdKey)

\* The service is built with RequestIdMiddleware(custom...) instead of
\* RequestIdMiddleware(): tags is the variadic argument.
RequestIdMiddleware(custom) ==
    /\ tags = NilTags
    /\ \A d \in Deliveries : dlv[d].pc = "idle"
    /\ tags' = [ptr |-> CustomPtr, len |-> Len(custom)]
    /\ UNCHANGED <<xid, inflight, dlv, touched, regVars, runVars, compVars, hdrVars, cfgVars>>

\* The transport calls the handler wrapContextHandler returned with a
\* message whose headers are hdr: the context is the background context,
\* ctxReq is allocated, and the composition loop has called the factory of
\* mark.
Deliver(d, hdr) ==
    /\ dlv[d].pc = "idle"
    /\ inflight' = Append(inflight, Request(d, Background))
    /\ dlv' = [e \in Deliveries |->
                 IF e = d
                 THEN [NotDelivered EXCEPT !.pc = "compose", !.hdr = hdr,
                                           !.cur = Len(inflight) + 1,
                                           !.met = InFlight]
                 ELSE IF e \in InFlight
                 THEN [dlv[e] EXCEPT !.met = @ \cup {d}]
                 ELSE dlv[e]]
    /\ UNCHANGED <<tags, xid, touched, regVars, runVars, compVars, hdrVars, cfgVars>>

\* The composition loop calls the factory of RequestIdMiddleware():
\* if len(tags) == 0
ComposeRead(d) ==
    /\ dlv[d].pc = "compose"
    /\ touched' = touched \cup {Access("tags", d, "read")}
    /\ dlv' = [dlv EXCEPT ![d].pc = IF tags.len = 0 THEN "write1" ELSE "ready"]
    /\ UNCHANGED <<tags, xid, inflight, regVars, runVars, compVars, hdrVars, cfgVars>>

\* tags = []string{...}: the first word of the slice header is stored
ComposeWrite1(d, word) ==
    /\ dlv[d].pc = "write1"
    /\ tags' = IF word = "ptr" THEN [tags EXCEPT !.ptr = d]
               ELSE [tags EXCEPT !.len = Len(DefaultTags)]
    /\ touched' = touched \cup {Access("tags", d, "write")}
    /\ dlv' = [dlv EXCEPT ![d].pc = "write2", ![d].first = word]
    /\ UNCHANGED <<xid, inflight, regVars, runVars, compVars, hdrVars, cfgVars>>

\* and then the other word
ComposeWrite2(d) ==
    /\ dlv[d].pc = "write2"
    /\ tags' = IF dlv[d].first = "ptr" THEN [tags EXCEPT !.len = Len(DefaultTags)]
               ELSE [tags EXCEPT !.ptr = d]
    /\ dlv' = [dlv EXCEPT ![d].pc = "ready"]
    /\ UNCHANGED <<xid, inflight, touched, regVars, runVars, compVars, hdrVars, cfgVars>>

\* The composed handler runs the request id middleware: it ranges over
\* tags (a header with a length and no array makes the index panic), takes
\* the id of the first tag the request carries or generates one, and calls
\* next with the derived request.
RunRequestId(d) ==
    /\ dlv[d].pc = "ready"
    /\ touched' = touched \cup {Access("tags", d, "read")}
    /\ IF tags.len > 0 /\ tags.ptr = 0
       THEN /\ dlv' = [dlv EXCEPT ![d].pc = "crashed"]
            /\ UNCHANGED <<xid, inflight>>
       ELSE LET requestId == FindRequestId(dlv[d].hdr, TagsAt(tags), 1)
                found == requestId # 0
                id == IF found THEN requestId ELSE XidNew(xid)
                a == AttachRequestId(inflight, dlv[d].cur, id)
            IN  /\ xid' = IF found THEN xid ELSE XidNew(xid)
                /\ inflight' = a.heap
                /\ dlv' = [dlv EXCEPT ![d].pc = "mark", ![d].cur = a.ptr,
                                      ![d].attached = id,
                                      ![d].order = Append(@, "requestid")]
    /\ UNCHANGED <<tags, regVars, runVars, compVars, hdrVars, cfgVars>>

\* mark runs and calls next with the request it was given
RunMark(d) ==
    /\ dlv[d].pc = "mark"
    /\ dlv' = [dlv EXCEPT ![d].pc = "handler", ![d].order = Append(@, "mark")]
    /\ UNCHANGED <<tags, xid, inflight, touched, regVars, runVars, compVars, hdrVars, cfgVars>>

\* The terminal handler reads RequestIdFromContext(req.Context()) and
\* returns nil; the delivery is over.
RunHandler(d) ==
    /\ dlv[d].pc = "handler"
    /\ dlv' = [dlv EXCEPT ![d].pc = "done",
                          ![d].got = RequestIdFromContext(Context(inflight, dlv[d].cur)),
                          ![d].order = Append(@, "H")]
    /\ UNCHANGED <<tags, xid, inflight, touched, regVars, runVars, compVars, hdrVars, cfgVars>>

----------------------------------------------------------------------------
(* Headers of MicroRequest and MicroReply (microrequest.go, microreply.go)  *)
(*                                                                          *)
(* Headers is a map from key to []string.  A map is a reference: hmaps is   *)
(* the heap of maps and a Headers field names one (0: nil).  A []string is  *)
(* a slice (array, len, cap) over an array of hstrs.  A header value is a   *)
(* number here, 0 standing for the empty string.                            *)

MaxObjs == 2        \* MicroRequest and MicroReply values
MaxHdrOps == 3      \* header accessor calls
MaxValues == 3      \* values the incoming message carries under one key

HeaderKeys == {"id", "Id"}
ReplyData == {<<1>>, <<2>>}

\* the capacity append gives a []string that has to grow
GrowCapString(oldCap, newLen) == IF newLen > 2 * oldCap THEN newLen ELSE 2 * oldCap

\* append(sl, value) for a []string
AppendString(strs, sl, value) ==
    IF sl.len + 1 <= sl.cap
    THEN [strs |-> [strs EXCEPT ![sl.arr] = [@ EXCEPT ![sl.len + 1] = value]],
          slice |-> [sl EXCEPT !.len = @ + 1]]
    ELSE LET c == GrowCapString(sl.cap, sl.len + 1)
         IN  [strs |-> Append(strs, [i \in 1..c |->
                                       IF i <= sl.len THEN strs[sl.arr][i]
                                       ELSE IF i = sl.len + 1 THEN value ELSE 0]),
              slice |-> [arr |-> Len(strs) + 1, len |-> sl.len + 1, cap |-> c]]

\* h[key] of a map value m
MapIndex(m, key) == IF key \in DOMAIN m THEN m[key] ELSE NilSlice
\* h[key] = sl
MapStore(m, key, sl) == [k \in DOMAIN m \cup {key} |-> IF k = key THEN sl ELSE m[k]]
\* delete(h, key)
MapDelete(m, key) == [k \in DOMAIN m \ {key} |-> m[k]]

\* The heap st = [strs, maps] and the Headers field h after
\*   h := nats.Header(r.Headers); if h == nil { h = nats.Header{} }
MapOrNew(st, h) ==
    IF h = 0 THEN [strs |-> st.strs, maps |-> Append(st.maps, <<>>), h |-> Len(st.maps) + 1]
    ELSE [strs |-> st.strs, maps |-> st.maps, h |-> h]

\* HeaderAdd whose h.Add puts the value in front of the others
HeaderMapAddInFront(st, h, key, value) ==
    LET n == MapOrNew(st, h)
        old == MapIndex(n.maps[n.h], key)
        vals == <<value>> \o [i \in 1..old.len |-> n.strs[old.arr][i]]
    IN  [strs |-> Append(n.strs, vals),
         maps |-> [n.maps EXCEPT ![n.h] =
                      MapStore(@, key, [arr |-> Len(n.strs) + 1, len |-> Len(vals),
                                        cap |-> Len(vals)])],
         h |-> n.h]

\* HeaderAdd: h.Add(key, value), that is h[key] = append(h[key], value);
\* r.Headers = micro.Headers(h)
HeaderMapAdd(st, h, key, value) ==
    LET n == MapOrNew(st, h)
        a == AppendString(n.strs, MapIndex(n.maps[n.h], key), value)
    IN  [strs |-> a.strs,
         maps |-> [n.maps EXCEPT ![n.h] = MapStore(@, key, a.slice)],
         h |-> n.h]

\* HeaderSet: h.Set(key, value), that is h[key] = []string{value}
HeaderMapSet(st, h, key, value) ==
    LET n == MapOrNew(st, h)
    IN  [strs |-> Append(n.strs, <<value>>),
         maps |-> [n.maps EXCEPT ![n.h] =
                      MapStore(@, key, [arr |-> Len(n.strs) + 1, len |-> 1, cap |-> 1])],
         h |-> n.h]

\* HeaderDel: nothing for a nil map, else delete(h, key)
HeaderMapDel(st, h, key) ==
    IF h = 0 THEN [strs |-> st.strs, maps |-> st.maps, h |-> h]
    ELSE [strs |-> st.strs, maps |-> [st.maps EXCEPT ![h] = MapDelete(@, key)], h |-> h]

\* HeaderValues: the values under key, as the slice reads them
HeaderMapValues(st, h, key) ==
    IF h = 0 THEN <<>>
    ELSE LET sl == MapIndex(st.maps[h], key)
         IN  [i \in 1..sl.len |-> st.strs[sl.arr][i]]

\* HeaderGet: the first value under key, or the empty string
HeaderMapGet(st, h, key) ==
    LET v == HeaderMapValues(st, h, key)
    IN  IF Len(v) = 0 THEN 0 ELSE v[1]

\* The header map of a message that carries the values 1..n under key, as
\* n calls of Header.Add build it (no map for a message without headers).
RECURSIVE Carrying(_, _, _)
Carrying(st, key, n) ==
    IF n = 0 THEN [strs |-> st.strs, maps |-> st.maps, h |-> 0]
    ELSE LET before == Carrying(st, key, n - 1)
         IN  HeaderMapAdd(before, before.h, key, n)

Objs == 1..Len(hobjs)
Store == [strs |-> hstrs, maps |-> hmaps]

NoCall == [op |-> "none", obj |-> 0, key |-> "", value |-> 0, result |-> 0,
           wasNil |-> FALSE, n |-> 0]

\* The value the next accessor call is given: one no earlier call used.
FreshValue == 11 + hlast.n

\* newMicroRequest(req, ctx) for a message that carries n values under "id"
MicroRequestArrives(n) ==
    /\ hobjs = <<>>
    /\ LET c == Carrying(Store, "id", n)
       IN  /\ hstrs' = c.strs
           /\ hmaps' = c.maps
           /\ hobjs' = <<[type |-> "MicroRequest", Headers |-> c.h, Data |-> <<>>,
                           from |-> 0]>>
    /\ UNCHANGED <<hlast, regVars, runVars, compVars, concVars, cfgVars>>

\* NewMicroReply(data): Headers is a new empty map
MakeMicroReply(data) ==
    /\ hobjs # <<>>
    /\ Len(hobjs) < MaxObjs
    /\ hmaps' = Append(hmaps, <<>>)
    /\ hobjs' = Append(hobjs, [type |-> "MicroReply", Headers |-> Len(hmaps) + 1,
                               Data |-> data, from |-> 0])
    /\ hlast' = [NoCall EXCEPT !.op = "NewMicroReply", !.obj = Len(hobjs) + 1,
                               !.n = hlast.n]
    /\ UNCHANGED <<hstrs, regVars, runVars, compVars, concVars, cfgVars>>

\* NewMicroReplyFromRequest(data, req): a new map, and for every key of
\* req.Headers h[k] = v
MakeMicroReplyFromRequest(data, req) ==
    /\ hobjs[req].type = "MicroRequest"
    /\ Len(hobjs) < MaxObjs
    /\ hmaps' = Append(hmaps, IF hobjs[req].Headers = 0 THEN <<>>
                              ELSE hmaps[hobjs[req].Headers])
    /\ hobjs' = Append(hobjs, [type |-> "MicroReply", Headers |-> Len(hmaps) + 1,
                               Data |-> data, from |-> 0])
    /\ hlast' = [NoCall EXCEPT !.op = "NewMicroReplyFromRequest",
                               !.obj = Len(hobjs) + 1, !.value = req, !.n = hlast.n]
    /\ UNCHANGED <<hstrs, regVars, runVars, compVars, concVars, cfgVars>>

\* r.WithContext(ctx) on a MicroRequest: a new value with the fields of r
\* (from: history, the value it was derived from)
DeriveMicroRequest(r) ==
    /\ hobjs[r].type = "MicroRequest"
    /\ Len(hobjs) < MaxObjs
    /\ hobjs' = Append(hobjs, [type |-> "MicroRequest", Headers |-> hobjs[r].Headers,
                               Data |-> hobjs[r].Data, from |-> r])
    /\ hlast' = [NoCall EXCEPT !.op = "WithContext", !.obj = Len(hobjs) + 1,
                               !.value = r, !.n = hlast.n]
    /\ UNCHANGED <<hstrs, hmaps, regVars, runVars, compVars, concVars, cfgVars>>

\* o.Data = data
AssignData(o, data) ==
    /\ hobjs[o].Data # data
    /\ hobjs' = [hobjs EXCEPT ![o].Data = data]
    /\ hlast' = [NoCall EXCEPT !.op = "Data", !.obj = o, !.n = hlast.n]
    /\ UNCHANGED <<hstrs, hmaps, regVars, runVars, compVars, concVars, cfgVars>>

\* One accessor call on the value o: the heap after it and the call record
Accessor(o, op, key, after, result) ==
    /\ hlast.n < MaxHdrOps
    /\ hstrs' = after.strs
    /\ hmaps' = after.maps
    /\ hobjs' = [hobjs EXCEPT ![o].Headers = after.h]
    /\ hlast' = [op |-> op, obj |-> o, key |-> key,
                 value |-> IF op \in {"HeaderAdd", "HeaderSet"} THEN FreshValue ELSE 0,
                 result |-> result, wasNil |-> hobjs[o].Headers = 0, n |-> hlast.n + 1]
    /\ UNCHANGED <<regVars, runVars, compVars, concVars, cfgVars>>

\* r.HeaderAdd(key, value), r a MicroRequest or a MicroReply
CallHeaderAdd(o, key) ==
    Accessor(o, "HeaderAdd", key, HeaderMapAdd(Store, hobjs[o].Headers, key, FreshValue), 0)

\* r.HeaderSet(key, value)
CallHeaderSet(o, key) ==
    Accessor(o, "HeaderSet", key, HeaderMapSet(Store, hobjs[o].Headers, key, FreshValue), 0)

\* r.HeaderDel(key)
CallHeaderDel(o, key) ==
    Accessor(o, "HeaderDel", key, HeaderMapDel(Store, hobjs[o].Headers, key), 0)

\* r.HeaderGet(key)
CallHeaderGet(o, key) ==
    Accessor(o, "HeaderGet", key, [strs |-> hstrs, maps |-> hmaps, h |-> hobjs[o].Headers],
             HeaderMapGet(Store, hobjs[o].Headers, key))

----------------------------------------------------------------------------
(* The caller's configuration.  micro.Config is passed to AddService by    *)
(* value, but its field Endpoint is a *micro.EndpointConfig: the copy and  *)
(* the caller's value point to the same EndpointConfig.                    *)

MaxConfigs == 2     \* EndpointConfig values the caller builds
MaxCalls == 3       \* AddService calls made with them

\* the nil micro.Handler
NilHandler == [kind |-> "nil"]

\* config.Endpoint of a call: 0 is the nil pointer
ConfigPtrs == 0..Len(cfgs)

\* the caller writes &micro.EndpointConfig{Handler: h}
MakeEndpointConfig(h) ==
    /\ Len(cfgs) < MaxConfigs
    /\ cfgs' = Append(cfgs, [Handler |-> h])
    /\ supplied' = Append(supplied, h)
    /\ UNCHANGED <<addCalls, regVars, runVars, compVars, concVars, hdrVars>>

\* AddService(nc, micro.Config{Endpoint: c}, fns...); fails: micro.AddService
\* returns an error.  The call history keeps what micro.AddService was given
\* as the handler of the base endpoint and the Service value returned.
AddServiceConfig(c, fns, fails) ==
    /\ Len(addCalls) < MaxCalls
    /\ LET wraps == Len(fns) > 0 /\ c # 0 /\ cfgs[c].Handler # NilHandler
           after == IF wraps
                    THEN [cfgs EXCEPT ![c].Handler = wrapHandler(@, fns)]
                    ELSE cfgs
       IN  /\ cfgs' = after
           /\ addCalls' = Append(addCalls,
                  [cfg |-> c, fns |-> fns, failed |-> fails,
                   given |-> IF c = 0 THEN NilHandler ELSE after[c].Handler,
                   service |-> IF fails THEN <<>> ELSE <<[mw |-> fns]>>])
    /\ UNCHANGED <<supplied, regVars, runVars, compVars, concVars, hdrVars>>

----------------------------------------------------------------------------
(* Specifications *)

InitReg ==
    /\ arrays = <<>>
    /\ svcs = <<>>
    /\ grps = <<>>
    /\ eps = <<>>
    /\ origin = <<>>

InitRun ==
    /\ reqs = <<>>
    /\ made = <<>>
    /\ run = Idle
    /\ defaultCtx = NilContext

InitComp ==
    /\ compressMin = DefaultCompressMin
    /\ lastSet = <<>>
    /\ comp = IdleComp

InitConc ==
    /\ tags = NilTags
    /\ xid = 0
    /\ inflight = <<>>
    /\ dlv = [d \in Deliveries |-> NotDelivered]
    /\ touched = {}

InitHdr ==
    /\ hstrs = <<>>
    /\ hmaps = <<>>
    /\ hobjs = <<>>
    /\ hlast = NoCall

InitCfg ==
    /\ cfgs = <<>>
    /\ supplied = <<>>
    /\ addCalls = <<>>

Init == InitReg /\ InitRun /\ InitComp /\ InitConc /\ InitHdr /\ InitCfg

NextRun ==
    \/ /\ Quiet
       /\ \E cmw \in Chains, h \in Handlers, id \in Ids :
              \E acts \in [{cmw[i] : i \in 1..Len(cmw)} -> Acts] :
                  HandleContext(cmw, defaultCtx, h, id, acts)
    \/ \E ctx \in DefaultContexts : SetDefaultContext(ctx)
    \/ /\ Quiet
       /\ \E mws \in Chains, h \in {g \in Handlers : g.err = NoError}, id \in Ids :
              HandlePlain(mws, h, id)
    \/ \E r \in 1..Len(reqs), val \in Ids : DeriveRequest(r, 0, val)
    \/ \E msg \in Ids, ctx \in {Background, WithValue(Background, 0, 1)} :
           NewMicroRequest(msg, ctx)
    \/ Done

Next ==
    \/ \E n \in 0..MaxFns, base \in BOOLEAN : AddService(Fresh(n), base)
    \/ \E n \in 0..MaxFns, base \in BOOLEAN : AddContextService(Fresh(n), base)
    \/ \E s \in Svcs, n \in 1..MaxFns : ServiceUse(s, Fresh(n))
    \/ \E s \in Svcs, n \in 1..MaxFns : ServiceUseContext(s, Fresh(n))
    \/ \E s \in Svcs : ServiceAddGroup(s)
    \/ \E g \in Grps : GroupAddGroup(g)
    \/ \E g \in Grps, n \in 1..MaxFns : GroupUse(g, Fresh(n))
    \/ \E g \in Grps, n \in 1..MaxFns : GroupUseContext(g, Fresh(n))
    \/ \E s \in Svcs : ServiceAddEndpoint(s)
    \/ \E s \in Svcs : ServiceAddContextEndpoint(s)
    \/ \E g \in Grps : GroupAddEndpoint(g)
    \/ \E g \in Grps : GroupAddContextEndpoint(g)

Spec == Init /\ [][Next]_vars

SpecRun == Init /\ [][NextRun]_vars

\* Context services, their derived values, groups and context endpoints,
\* and calls of SetDefaultContext between them.
NextCtx ==
    \/ AddContextService(Fresh(1), FALSE)
    \/ \E s \in Svcs : ServiceUseContext(s, Fresh(1))
    \/ \E s \in Svcs : ServiceAddGroup(s)
    \/ \E g \in Grps : GroupUseContext(g, Fresh(1))
    \/ \E s \in Svcs : ServiceAddContextEndpoint(s)
    \/ \E g \in Grps : GroupAddContextEndpoint(g)
    \/ \E s \in Svcs, ctx \in DefaultContexts : ServiceSetDefaultContext(s, ctx)

SpecCtx == Init /\ [][NextCtx]_vars

NextComp ==
    \/ \E encoding \in Encodings, accept \in Encodings, data \in Payloads :
           Receive(encoding, accept, data)
    \/ \E link \in NextLinks : NextReturns(link)
    \/ Returned
    \/ \E minBytes \in 0..MaxMin : SetCompressMin(minBytes)

SpecComp == Init /\ [][NextComp]_vars

NextConc ==
    \/ RequestIdMiddleware(CustomTags)
    \/ \E d \in Deliveries : \E hdr \in HeadersOf(d) : Deliver(d, hdr)
    \/ \E d \in Deliveries : ComposeRead(d)
    \/ \E d \in Deliveries, word \in {"ptr", "len"} : ComposeWrite1(d, word)
    \/ \E d \in Deliveries : ComposeWrite2(d)
    \/ \E d \in Deliveries : RunRequestId(d)
    \/ \E d \in Deliveries : RunMark(d)
    \/ \E d \in Deliveries : RunHandler(d)

SpecConc == Init /\ [][NextConc]_vars

NextHdr ==
    \/ \E n \in 0..MaxValues : MicroRequestArrives(n)
    \/ \E data \in ReplyData : MakeMicroReply(data)
    \/ \E data \in ReplyData, req \in Objs : MakeMicroReplyFromRequest(data, req)
    \/ \E r \in Objs : DeriveMicroRequest(r)
    \/ \E o \in Objs, data \in ReplyData : AssignData(o, data)
    \/ \E o \in Objs, key \in HeaderKeys : CallHeaderAdd(o, key)
    \/ \E o \in Objs, key \in HeaderKeys : CallHeaderSet(o, key)
    \/ \E o \in Objs, key \in HeaderKeys : CallHeaderDel(o, key)
    \/ \E o \in Objs, key \in HeaderKeys : CallHeaderGet(o, key)

SpecHdr == Init /\ [][NextHdr]_vars

\* A caller that builds endpoint configurations and passes them to AddService,
\* the same one any number of times.
NextCfg ==
    \/ \E h \in {NilHandler, Terminal("H")} : MakeEndpointConfig(h)
    \/ \E c \in ConfigPtrs, fns \in SeqsUpTo(1..MaxFns, MaxFns), fails \in BOOLEAN :
           AddServiceConfig(c, fns, fails)

SpecCfg == Init /\ [][NextCfg]_vars

----------------------------------------------------------------------------
(* Claims about services, groups and endpoints (specification Spec) *)

Range(f) == {f[i] : i \in DOMAIN f}

\* The chain the value that owns endpoint e was given when it was derived:
\* its parent's chain at that moment followed by the arguments of the call.
Wanted(e) ==
    IF eps[e].flavor = "plain" THEN origin[eps[e].svc].mw
    ELSE origin[eps[e].svc].cmw

HasSibling(c) ==
    /\ origin[c].parent # 0
    /\ \E d \in Svcs \ {c} : origin[d].parent = origin[c].parent

\* C2: when two values are derived from the same parent by separate
\* Use/UseContext calls, the endpoints of each run the parent's chain followed
\* by that call's own arguments, whatever the sibling was given.
C2_SiblingsRunOwnChain ==
    \A e \in Eps : HasSibling(eps[e].svc) => ChainRun(e) = Wanted(e)

\* The chain an endpoint of the given flavor registered on group g runs.
GroupChain(g, flavor) ==
    IF flavor = "plain" THEN ReadSlice(arrays, svcs[grps[g].svc].mw)
    ELSE ReadSlice(arrays, svcs[grps[g].svc].cmw)

\* The group that AddGroup was called on to create group g or the group g
\* was derived from with Use/UseContext; 0 when it was called on a service.
RECURSIVE ParentGroup(_)
ParentGroup(g) ==
    IF grps[g].from = 0 THEN 0
    ELSE IF grps[grps[g].from].depth < grps[g].depth THEN grps[g].from
    ELSE ParentGroup(grps[g].from)

\* This step is Use/UseContext on the service or on the parent group that
\* group g was created from: it derives a Service value from the one that
\* AddGroup call read, and it is not Use/UseContext on another group.
AddsToParentOf(g) ==
    /\ Len(svcs') = Len(svcs) + 1
    /\ origin'[Len(svcs')].parent = grps[g].base
    /\ \/ Len(grps') = Len(grps)
       \/ /\ ParentGroup(g) # 0
          /\ grps'[Len(grps')].from = ParentGroup(g)

\* C3: middleware added to a service or parent group after a child group was
\* created from it (possibly followed by Use/UseContext on the child) never
\* appears in the chain the child's endpoints run and never displaces a
\* middleware of that chain.
C3_ParentUseAfterGroup ==
    [][\A g \in Grps : AddsToParentOf(g) =>
          /\ \A flavor \in {"plain", "context"} :
                 /\ GroupChain(g, flavor)' = GroupChain(g, flavor)
                 /\ Range(origin'[Len(svcs')].args) \cap Range(GroupChain(g, flavor)') = {}
          /\ \A e \in Eps : eps[e].grp = g => ChainRun(e)' = ChainRun(e)]_vars

----------------------------------------------------------------------------
(* Claims about one delivery (specification SpecRun) *)

Delivered(flavor) == run.flavor = flavor

Steps(trace) == [i \in 1..Len(trace) |-> <<trace[i].ev, trace[i].mw>>]

\* pre-logic first to last, the terminal handler, post-logic last to first
OnionOrder(mws) ==
    LET n == Len(mws)
    IN  [i \in 1..(2 * n + 1) |->
            IF i <= n THEN <<"pre", mws[i]>>
            ELSE IF i = n + 1 THEN <<"H", 0>>
            ELSE <<"post", mws[2 * n + 2 - i]>>]

\* C1: invoking the handler composed from H and [m0, ..., mn-1] runs the
\* pre-logic of m0, ..., mn-1 in that order, then H, then the post-logic in
\* the reverse order, in the plain and in the context flavor.
C1_OnionOrder ==
    (Delivered("plain") \/ Delivered("context")) =>
        Steps(run.trace) = OnionOrder(run.mws)

C1_Witness ==
    /\ Delivered("context")
    /\ run.mws = <<1, 2>>
    /\ Steps(run.trace) =
           <<<<"pre", 1>>, <<"pre", 2>>, <<"H", 0>>, <<"post", 2>>, <<"post", 1>>>>

\* What the dispatcher itself sent during the delivery.
Reports == SelectSeq(run.sent, LAMBDA m : m.by = "dispatcher")

\* C4: a non-nil error that is not a HandlerError is reported with code
\* "500", the error's message as description and a payload that is exactly
\* {"description":<message>,"code":"500"}, description first.
C4_DefaultError ==
    (Delivered("context") /\ run.err.type = "*errorString") =>
        /\ Len(Reports) = 1
        /\ Reports[1].op = "Error"
        /\ Reports[1].code = <<"500">>
        /\ Reports[1].description = run.err.msg
        /\ Reports[1].data =
               <<"{", "\"description\":">> \o JsonString(run.err.msg)
               \o <<",", "\"code\":", "\"", "500", "\"", "}">>
        /\ run.err.msg = <<"request failed">> =>
               Reports[1].data =
                   <<"{", "\"description\":", "\"", "request failed", "\"",
                     ",", "\"code\":", "\"", "500", "\"", "}">>

C4_Witness ==
    /\ Delivered("context")
    /\ run.err = ErrorString(<<"request failed">>)
    /\ run.sent = <<Sent("Error", "dispatcher", <<"500">>, <<"request failed">>,
                         <<"{", "\"description\":", "\"", "request failed", "\"",
                           ",", "\"code\":", "\"", "500", "\"", "}">>)>>

Structured == Delivered("context") /\ run.err.type = "*HandlerError" /\ ~run.err.ptr.nil

\* C5 as stated: a HandlerError is used verbatim; the code channel carries
\* its code, the description channel its description, and the payload decodes
\* to the same (description, code) pair.
C5_VerbatimAndDecodable ==
    Structured =>
        /\ Len(Reports) = 1
        /\ Reports[1].code = run.err.ptr.Code
        /\ Reports[1].description = run.err.ptr.Description
        /\ Unmarshal(Reports[1].data) =
               [ok |-> TRUE, Description |-> run.err.ptr.Description,
                Code |-> run.err.ptr.Code]

\* A text as a JSON document can carry it: invalid bytes replaced.
Utf8(t) == [i \in 1..Len(t) |-> IF t[i] = BadByte THEN Replacement ELSE t[i]]

\* C5 amended: the code and description channels carry the HandlerError's
\* code and description verbatim, and the payload decodes to that pair with
\* every byte that is not valid UTF-8 replaced by U+FFFD, hence to the same
\* pair whenever description and code are valid UTF-8.
C5_VerbatimAndDecodableUtf8 ==
    Structured =>
        /\ Len(Reports) = 1
        /\ Reports[1].op = "Error"
        /\ Reports[1].code = run.err.ptr.Code
        /\ Reports[1].description = run.err.ptr.Description
        /\ Unmarshal(Reports[1].data) =
               [ok |-> TRUE, Description |-> Utf8(run.err.ptr.Description),
                Code |-> Utf8(run.err.ptr.Code)]
        /\ (BadByte \notin Range(run.err.ptr.Description) \cup Range(run.err.ptr.Code)) =>
               Unmarshal(Reports[1].data) =
                   [ok |-> TRUE, Description |-> Reports[1].description,
                    Code |-> Reports[1].code]

C5_Witness ==
    /\ Structured
    /\ run.err.ptr = Struct(<<"request failed", "\"">>, <<"404">>)
    /\ Len(Reports) = 1
    /\ Reports[1].code = <<"404">>
    /\ Unmarshal(Reports[1].data).Description = <<"request failed", "\"">>

\* C6: for every non-nil error the chain returns, whatever its dynamic type
\* or content, the dispatch completes without crashing and reports exactly
\* one error to the caller.
C6_EveryErrorReported ==
    (Delivered("context") /\ run.err.type # "nil") =>
        /\ ~run.crashed
        /\ Len(Reports) = 1
        /\ Reports[1].op = "Error"

\* C7: when the chain returns nil the dispatcher sends nothing; the replies
\* of the delivery are those the handler sent.
C7_NoImplicitReply ==
    (Delivered("context") /\ run.err.type = "nil") =>
        /\ Reports = <<>>
        /\ ~run.crashed
        /\ run.sent = IF run.h.respond
                      THEN <<Sent("Respond", "handler", <<>>, <<>>, <<"data">>)>>
                      ELSE <<>>

C7_Witness ==
    /\ Delivered("context")
    /\ run.err.type = "nil"
    /\ run.mws = <<1, 2>>
    /\ run.sent = <<Sent("Respond", "handler", <<>>, <<>>, <<"data">>)>>

\* The context a request carries after the first n middleware of the chain
\* each attached the delivery's value under its own key.
RECURSIVE Attached(_, _, _, _)
Attached(ctx, mws, id, n) ==
    IF n = 0 THEN ctx
    ELSE WithValue(Attached(ctx, mws, id, n - 1), mws[n], id)

\* The last (key, value) pair of the context a derived request was made with.
Last(r) == made[r].ctx.vals[Len(made[r].ctx.vals)]

\* C8: WithContext returns a new request whose Context() is exactly the
\* attached context and leaves the receiver's context unchanged; the request
\* a middleware passes to next is the one the next link receives, so the
\* terminal handler sees the values of all middleware; two requests derived
\* from the same original with different values never see each other's value.
C8_WithContext ==
    /\ Len(made) = Len(reqs)
    /\ \A r \in 1..Len(reqs) :
           /\ Context(reqs, r) = made[r].ctx
           /\ made[r].from # 0 =>
                  /\ made[r].from < r
                  /\ reqs[r].type = reqs[made[r].from].type
                  /\ [reqs[r] EXCEPT !.ctx = NilContext]
                         = [reqs[made[r].from] EXCEPT !.ctx = NilContext]
    /\ \A r1, r2 \in 1..Len(reqs) :
           (/\ made[r1].from # 0
            /\ made[r1].from = made[r2].from
            /\ Last(r1)[1] = Last(r2)[1]
            /\ Last(r1)[2] # Last(r2)[2]) =>
               /\ Value(Context(reqs, r1), Last(r1)[1]) = Last(r1)[2]
               /\ Value(Context(reqs, r2), Last(r2)[1]) = Last(r2)[2]
               /\ Context(reqs, made[r1].from) = made[made[r1].from].ctx
    /\ Delivered("context") =>
           LET n == Len(run.mws)
           IN  /\ Len(run.trace) = 2 * n + 1
               /\ \A i \in 1..n :
                      /\ run.trace[i].ctx = Attached(run.ctx, run.mws, run.id, i - 1)
                      /\ run.trace[2 * n + 2 - i].ctx = run.trace[i].ctx
               /\ run.trace[n + 1].ctx = Attached(run.ctx, run.mws, run.id, n)
               /\ \A i \in 1..n : Value(run.trace[n + 1].ctx, run.mws[i]) = run.id

C8_Witness ==
    \E r1, r2 \in 1..Len(reqs) :
        /\ reqs[r1].type = "Request"
        /\ made[r1].from # 0
        /\ made[r1].from = made[r2].from
        /\ made[made[r1].from].from # 0
        /\ Value(Context(reqs, r1), 0) = 1
        /\ Value(Context(reqs, r2), 0) = 2

----------------------------------------------------------------------------
(* Claims about the compression middleware (specification SpecComp)        *)

\* The middleware has taken a request and has not yet handed its result over.
Taken == comp.state # "idle"

ReceivedEncoding == HeaderGet(comp.received.Headers, HeaderEncoding)

\* The middleware returned (nil, err) without calling the next link.
ShortCircuited(err) ==
    /\ comp.state = "returned"
    /\ comp.err = err
    /\ comp.reply = NilReply
    /\ ~comp.called

\* C9: a request whose encoding header is non-empty and neither gzip nor
\* deflate makes CompressionMiddleware return the unsupported-encoding error
\* with no reply, and the next link (so the terminal handler) is never called.
C9_UnsupportedEncoding ==
    (Taken /\ ReceivedEncoding \notin {"", "gzip", "deflate"})
        => ShortCircuited(ErrUnsupportedEncoding)

C9_Witness ==
    /\ ReceivedEncoding = "bzip2"
    /\ Len(comp.received.Data) > 0
    /\ ShortCircuited(ErrUnsupportedEncoding)

\* C10: a request that declares gzip or deflate and whose payload the codec
\* cannot decode makes CompressionMiddleware return the decode error with no
\* reply, the next link is never called, and the request payload stays as it
\* was received.
C10_DecodeFailure ==
    (/\ Taken
     /\ ReceivedEncoding \in {"gzip", "deflate"}
     /\ readCompressedData(ReceivedEncoding, comp.received.Data).err # NoErr)
        => /\ ShortCircuited(readCompressedData(ReceivedEncoding,
                                                comp.received.Data).err)
           /\ comp.req.Data = comp.received.Data

C10_Witness ==
    /\ ReceivedEncoding = "gzip"
    /\ readCompressedData("gzip", comp.received.Data).err = "gzip: invalid checksum"
    /\ readCompressedData("gzip", comp.received.Data).data # comp.received.Data
    /\ ShortCircuited("gzip: invalid checksum")
    /\ comp.req.Data = comp.received.Data

\* The call has returned after next was called.
Finished == comp.state = "returned" /\ comp.called

\* next returned a reply and no error.
Succeeded == Finished /\ comp.link \in {"echo", "echoFrom"}

\* The headers of the request as it was received
ReceivedAccept == HeaderGet(comp.received.Headers, HeaderAcceptEncoding)

Codecs == {CompressionGzip, CompressionDeflate}

\* What the codec named c makes of data, and what it recovers from data
\* ("": nothing is done).
Encoded(c, data) ==
    IF c = CompressionGzip THEN compressGzip(data)
    ELSE IF c = CompressionDeflate THEN compressDeflate(data)
    ELSE data

Decoded(c, data) ==
    IF c = CompressionGzip THEN decompressGzip(data)
    ELSE IF c = CompressionDeflate THEN decompressDeflate(data)
    ELSE [data |-> data, err |-> NoErr]

\* C11: a reply whose payload is shorter than the threshold of the moment is
\* never compressed, whatever accept-encoding the request carries: payload
\* and headers are as next returned them.
C11_BelowThreshold ==
    (Succeeded /\ Len(comp.handed.Data) < comp.min) =>
        /\ comp.err = NoErr
        /\ comp.reply.Data = comp.handed.Data
        /\ comp.reply.Headers = comp.handed.Headers
        /\ comp.object = comp.handed

C11_Witness ==
    /\ Succeeded
    /\ comp.link = "echo"
    /\ ReceivedAccept = CompressionGzip
    /\ Len(comp.handed.Data) = 2
    /\ comp.min = 3
    /\ comp.reply.Data = comp.handed.Data
    /\ HeaderEncoding \notin DOMAIN comp.reply.Headers

C13_IndependentDirections ==
    \A e \in Codecs \cup {CompressionNone}, a \in Codecs \cup {CompressionNone} :
        (Succeeded /\ ReceivedEncoding = e /\ ReceivedAccept = a) =>
            /\ comp.req.Data = Decoded(e, comp.received.Data).data
            /\ comp.handed.Data = comp.req.Data
            /\ Len(comp.handed.Data) >= comp.min =>
                   comp.reply.Data = Encoded(a, comp.handed.Data)
            /\ Len(comp.handed.Data) < comp.min =>
                   comp.reply.Data = comp.handed.Data

C13_Witness ==
    /\ Succeeded
    /\ comp.link = "echo"
    /\ ReceivedEncoding = CompressionGzip
    /\ ReceivedAccept = CompressionDeflate
    /\ comp.received.Data = compressGzip(comp.req.Data)
    /\ Len(comp.req.Data) = 1
    /\ Len(comp.handed.Data) >= comp.min
    /\ comp.reply.Data = compressDeflate(comp.req.Data)
    /\ comp.reply.Headers[HeaderEncoding] = <<CompressionDeflate>>

\* A second case of C13: a compressed request does not by itself make the
\* reply compressed.
C13_WitnessOneWay ==
    /\ Succeeded
    /\ comp.link = "echo"
    /\ ReceivedEncoding = CompressionGzip
    /\ ReceivedAccept = CompressionNone
    /\ Len(comp.handed.Data) >= comp.min
    /\ comp.reply.Data = comp.req.Data

\* C14: round trip.  When the payload is the gzip (deflate) compression of
\* data D and the encoding header names that codec, next receives exactly
\* D; with an empty encoding header it receives the payload as it came; and
\* when the middleware compressed the reply with codec c, decompressing the
\* returned payload with c gives back the bytes next returned.
C14_RoundTrip ==
    /\ \A c \in Codecs, D \in Payloads :
           (Finished /\ ReceivedEncoding = c /\ comp.received.Data = Encoded(c, D))
               => comp.req.Data = D
    /\ \A c \in Codecs, D \in Payloads :
           (Taken /\ ReceivedEncoding = c /\ comp.received.Data = Encoded(c, D))
               => comp.called
    /\ (Finished /\ ReceivedEncoding = CompressionNone)
           => comp.req.Data = comp.received.Data
    /\ \A c \in Codecs :
           (Succeeded /\ comp.reply # comp.handed /\ ReceivedAccept = c)
               => /\ HeaderGet(comp.reply.Headers, HeaderEncoding) = c
                  /\ Decoded(c, comp.reply.Data) = [data |-> comp.handed.Data, err |-> NoErr]

C14_Witness ==
    /\ Succeeded
    /\ comp.link = "echo"
    /\ ReceivedEncoding = CompressionGzip
    /\ ReceivedAccept = CompressionDeflate
    /\ comp.received.Data = compressGzip(<<0>>)
    /\ comp.req.Data = <<0>>
    /\ comp.reply # comp.handed
    /\ decompressDeflate(comp.reply.Data).data = <<0>>

\* C15: when next returns an error, the middleware returns that error and
\* no reply, and a reply object next returned with it is not compressed
\* and keeps its headers.
C15_ErrorPassesThrough ==
    (Finished /\ comp.link \in {"fail", "replyAndFail"}) =>
        /\ comp.err = "handler failed"
        /\ comp.reply = NilReply
        /\ comp.object = comp.handed

C15_Witness ==
    /\ Finished
    /\ comp.link = "replyAndFail"
    /\ ReceivedAccept = CompressionGzip
    /\ ~comp.handed.nil
    /\ Len(comp.handed.Data) >= comp.min
    /\ comp.err = "handler failed"
    /\ comp.reply = NilReply
    /\ comp.object = comp.handed

\* The middleware compressed the reply with codec c in this call.
CompressedWith(c) ==
    /\ comp.object # comp.handed
    /\ comp.reply.Data = Encoded(c, comp.handed.Data)
    /\ ReceivedAccept = c

\* C16: a reply the middleware returns carries an encoding header naming a
\* codec if and only if the middleware compressed the payload with that
\* codec in this call; when it did nothing the header is absent.
C16_EncodingHeaderTellsTheTruth ==
    (Succeeded /\ comp.err = NoErr) =>
        /\ \A c \in Encodings \ {CompressionNone} :
               HeaderGet(comp.reply.Headers, HeaderEncoding) = c <=> CompressedWith(c)
        /\ comp.object = comp.handed => HeaderEncoding \notin DOMAIN comp.reply.Headers

\* C17: the threshold is one integer, 1000 until SetCompressMin is called;
\* GetCompressMin returns the argument of the latest SetCompressMin; and
\* the outbound stage of every call decides with the value of that moment.
C17_Threshold ==
    /\ GetCompressMin = IF lastSet = <<>> THEN 1000 ELSE lastSet[1]
    /\ Succeeded =>
           (comp.object # comp.handed
                <=> Len(comp.handed.Data) >= comp.min /\ ReceivedAccept \in Codecs)

\* A call that began under the default threshold and compressed its reply
\* because SetCompressMin was called before its outbound stage.
C17_Witness ==
    /\ Succeeded
    /\ comp.minAtEntry = 1000
    /\ lastSet = <<1>>
    /\ comp.min = 1
    /\ GetCompressMin = 1
    /\ Len(comp.handed.Data) = 1
    /\ comp.object # comp.handed

\* C18: when next succeeds and accept-encoding is empty or any value other
\* than gzip and deflate, the reply is returned as next returned it, with
\* no error, whatever its size.
C18_NoCodecAsked ==
    (Succeeded /\ ReceivedAccept \notin Codecs) =>
        /\ comp.err = NoErr
        /\ comp.reply = comp.handed
        /\ comp.object = comp.handed

C18_Witness ==
    /\ Succeeded
    /\ comp.link = "echo"
    /\ ReceivedAccept = CompressionNone
    /\ Len(comp.handed.Data) = 3
    /\ comp.min = 0
    /\ comp.reply = comp.handed
    /\ HeaderEncoding \notin DOMAIN comp.reply.Headers

\* A second case of C18: an accept-encoding that names no codec.
C18_WitnessUnknown ==
    /\ Succeeded
    /\ ReceivedAccept = "bzip2"
    /\ Len(comp.handed.Data) >= comp.min
    /\ comp.reply = comp.handed

----------------------------------------------------------------------------
(* Claims about concurrent deliveries (specification SpecConc) *)

\* The deliveries whose terminal handler has run.
Handled == {d \in Deliveries : dlv[d].pc = "done"}

\* C19: with several deliveries on the context endpoint in flight, under
\* every interleaving each terminal handler reads the value its own
\* delivery's middleware attached (the id its request carried, or a
\* generated id no other delivery has), and every invocation runs the
\* middleware in the same order.
C19_OwnValue ==
    \A d \in Handled :
        /\ dlv[d].got = dlv[d].attached
        /\ dlv[d].got # 0
        /\ dlv[d].got \in {GivenId(d), OtherId(d)} \cup 1..xid
        /\ \A e \in Handled \ {d} : dlv[e].got # dlv[d].got
        /\ dlv[d].order = <<"requestid", "mark", "H">>

\* Deliveries 1 and 2 were both under way before either middleware derived
\* its request, and every handler has run.
C19_Witness ==
    /\ Handled = Deliveries
    /\ 2 \in dlv[1].met
    /\ dlv[1].cur = 3
    /\ dlv[2].cur = 4
    /\ dlv[1].got # dlv[2].got
    /\ dlv[1].got = dlv[1].attached
    /\ dlv[2].got = dlv[2].attached

\* C20: no variable written during one invocation is read or written by
\* another invocation that is in flight at the same time.
C20_NoSharedMutableState ==
    \A a \in touched, b \in touched :
        (a.kind = "write" /\ a.var = b.var /\ a.by # b.by) =>
            b.by \notin dlv[a.by].met

\* The tags the middleware was built with.
Configured == IF tags.ptr = CustomPtr THEN CustomTags ELSE DefaultTags

\* The positions of the configured tags under which the request of
\* delivery d carries a non-empty value.
Carried(d) ==
    {i \in 1..Len(Configured) :
        /\ Configured[i] \in DOMAIN dlv[d].hdr
        /\ dlv[d].hdr[Configured[i]][1] # 0}

\* C24: the terminal handler reads, with RequestIdFromContext, the value
\* the request carries under the first configured tag that has a non-empty
\* one (the default tag request_id and its case variants, or the custom
\* tags), else a freshly generated non-empty id; a context without an id
\* gives the empty string.
C24_RequestId ==
    /\ RequestIdFromContext(Background) = 0
    /\ \A i \in 1..Len(inflight) :
           inflight[i].ctx = Background => RequestIdFromContext(Context(inflight, i)) = 0
    /\ \A d \in Handled :
           IF Carried(d) # {}
           THEN LET first == CHOOSE i \in Carried(d) : \A j \in Carried(d) : i <= j
                IN  dlv[d].got = dlv[d].hdr[Configured[first]][1]
           ELSE /\ dlv[d].got \in 1..xid
                /\ \A e \in Handled \ {d} : dlv[e].got # dlv[d].got

\* Custom tags: delivery 1 carried its id under the second of them, and
\* delivery 2 carried one under request_id only and got a generated id.
C24_Witness ==
    /\ Handled = Deliveries
    /\ tags.ptr = CustomPtr
    /\ dlv[1].hdr = ("Reqid" :> <<GivenId(1)>> @@ "X-Request-Id" :> <<OtherId(1)>>)
    /\ dlv[1].got = OtherId(1)
    /\ dlv[2].hdr = ("request_id" :> <<GivenId(2)>>)
    /\ dlv[2].got = 1
    /\ xid = 1

----------------------------------------------------------------------------
(* Claims about headers (specification SpecHdr) *)

\* What reading the headers of the value o gives: for each key of its map
\* the values under it.
Headers(o) ==
    LET h == hobjs[o].Headers
    IN  IF h = 0 THEN <<>>
        ELSE [k \in DOMAIN hmaps[h] |->
                 [i \in 1..hmaps[h][k].len |-> hstrs[hmaps[h][k].arr][i]]]

ValuesOf(o, key) == IF key \in DOMAIN Headers(o) THEN Headers(o)[key] ELSE <<>>

\* C26: on a MicroRequest or a MicroReply, also one whose header map is
\* nil, HeaderSet(k, v) makes the values of k exactly [v], HeaderAdd(k, v)
\* appends v after the values of k, HeaderGet(k) returns the first value of
\* k or the empty string, HeaderDel(k) removes k, and the values of every
\* other key (keys are case-sensitive) stay as they were.
C26_Accessors ==
    [][hlast'.n = hlast.n + 1 =>
          \A o \in 1..MaxObjs, k \in HeaderKeys :
              (hlast'.obj = o /\ hlast'.key = k) =>
                  /\ hlast'.op = "HeaderSet" => ValuesOf(o, k)' = <<hlast'.value>>
                  /\ hlast'.op = "HeaderAdd" =>
                         ValuesOf(o, k)' = ValuesOf(o, k) \o <<hlast'.value>>
                  /\ hlast'.op = "HeaderGet" =>
                         /\ hlast'.result =
                                (IF ValuesOf(o, k) = <<>> THEN 0 ELSE ValuesOf(o, k)[1])
                         /\ Headers(o)' = Headers(o)
                  /\ hlast'.op = "HeaderDel" => k \notin DOMAIN Headers(o)'
                  /\ \A other \in HeaderKeys \ {k} :
                         /\ other \in DOMAIN Headers(o)' <=> other \in DOMAIN Headers(o)
                         /\ ValuesOf(o, other)' = ValuesOf(o, other)]_vars

\* A value whose map was nil got its first header, then a second value
\* under the same key, then a value under the key that differs in case.
C26_Witness ==
    /\ hlast.n = 3
    /\ hlast.op = "HeaderSet"
    /\ hobjs[1].type = "MicroRequest"
    /\ hstrs[1] = <<11>>
    /\ Headers(1) = ("id" :> <<11, 12>> @@ "Id" :> <<13>>)

\* C29: NewMicroReplyFromRequest(data, req) returns a reply with payload
\* data and req's headers of that moment in a map of its own; afterwards a
\* header call on the reply never changes what is read from the request and
\* a header call on the request never changes what is read from the reply.
C29_ReplyHeadersSeparate ==
    [][/\ \A new \in 1..MaxObjs, req \in 1..MaxObjs :
              (/\ hlast'.op = "NewMicroReplyFromRequest"
               /\ Len(hobjs') = new /\ Len(hobjs) = new - 1
               /\ hlast'.value = req) =>
                  /\ Headers(new)' = Headers(req)
                  /\ hobjs'[new].Headers # hobjs'[req].Headers
                  /\ hobjs'[new].Data \in ReplyData
       /\ hlast'.n = hlast.n + 1 =>
              \A o \in Objs, by \in Objs :
                  (/\ hlast'.obj = by
                   /\ by # o
                   /\ "MicroReply" \in {hobjs[o].type, hobjs[by].type})
                      => Headers(o)' = Headers(o)]_vars

\* C31: HeaderSet, HeaderAdd and HeaderDel on a MicroRequest derived by
\* WithContext do not change the header values read through the original,
\* whether the original's map was nil or not when the request was derived,
\* and assigning the derived request's payload leaves the original's payload
\* as it was.
C31_DerivedRequestSeparate ==
    [][\A o \in Objs, orig \in Objs :
           (hlast'.obj = o /\ hobjs[o].from = orig) =>
               /\ hlast'.n = hlast.n + 1 => Headers(orig)' = Headers(orig)
               /\ hlast'.op = "Data" => hobjs'[orig].Data = hobjs[orig].Data]_vars


----------------------------------------------------------------------------
(* Further claims about one delivery (specification SpecRun) *)

\* What the terminal handler itself sends.
HandlerSends(h) ==
    IF h.respond THEN <<Sent("Respond", "handler", <<>>, <<>>, <<"data">>)>> ELSE <<>>

\* C22: with no middleware the composed handler behaves as the terminal
\* handler H: the plain flavor performs exactly H's effects; the context
\* flavor calls H once with the constructed request and the error H returns
\* is the result of the chain.
C22_IdentityWrapping ==
    /\ (Delivered("plain") /\ run.mws = <<>>) =>
           /\ run.trace = <<Event("H", 0, NilContext)>>
           /\ run.sent = HandlerSends(run.h)
    /\ (Delivered("context") /\ run.mws = <<>>) =>
           /\ run.trace = <<Event("H", 0, run.ctx)>>
           /\ reqs = <<Request(run.id, run.ctx)>>
           /\ SelectSeq(run.sent, LAMBDA m : m.by = "handler") = HandlerSends(run.h)
           /\ run.err = run.h.err

C22_Witness ==
    /\ Delivered("context")
    /\ run.mws = <<>>
    /\ run.h.respond
    /\ run.h.err # NoError
    /\ run.err = run.h.err
    /\ Len(run.trace) = 1

\* C25: the request handed to the outermost link of a context endpoint
\* carries the service's default context if SetDefaultContext set a non-nil
\* one, and a background context otherwise; it wraps the transport message
\* of the delivery.
C25_DeliveryContext ==
    Delivered("context") =>
        LET expected == IF defaultCtx = NilContext THEN Background ELSE defaultCtx
        IN  /\ run.trace[1].ev = (IF run.mws = <<>> THEN "H" ELSE "pre")
            /\ run.trace[1].ctx = expected
            /\ reqs[1] = [type |-> "Request", msg |-> run.id, ctx |-> expected]

C25_Witness ==
    /\ Delivered("context")
    /\ defaultCtx = WithValue(Background, 0, 1)
    /\ run.mws = <<1, 2>>
    /\ run.trace[1] = Event("pre", 1, WithValue(Background, 0, 1))
    /\ reqs[1].msg = run.id

----------------------------------------------------------------------------
(* Further claims about services, groups and endpoints (specification Spec) *)

PlainCalls == {"AddService", "Use", "Group.Use"}
ContextCalls == {"AddContextService", "UseContext", "Group.UseContext"}

\* The arguments of the calls that led to Service value s, in call order.
RECURSIVE ArgsInOrder(_, _)
ArgsInOrder(s, flavor) ==
    LET own == IF origin[s].via \in (IF flavor = "plain" THEN PlainCalls ELSE ContextCalls)
               THEN origin[s].args ELSE <<>>
    IN  IF origin[s].parent = 0 THEN own
        ELSE ArgsInOrder(origin[s].parent, flavor) \o own

RECURSIVE DerivedFrom(_, _)
DerivedFrom(s, a) ==
    /\ origin[s].parent # 0
    /\ origin[s].parent = a \/ DerivedFrom(origin[s].parent, a)

\* s was obtained by a sequence of calls, each on the result of the one
\* before: no value it descends from was used for another derivation.
Chained(s) ==
    \A a \in Svcs : DerivedFrom(s, a) =>
        Cardinality({d \in Svcs : origin[d].parent = a}) = 1

ServiceChain(s, flavor) ==
    IF flavor = "plain" THEN ReadSlice(arrays, svcs[s].mw)
    ELSE ReadSlice(arrays, svcs[s].cmw)

Derives == Len(svcs') = Len(svcs) + 1 /\ origin'[Len(svcs')].parent # 0

\* C23: Use, WithMiddleware, UseContext and WithContextMiddleware return a
\* new value and leave the receiver as it was: its plain chain, its context
\* chain and its default context read the same after the call.
C23_ReceiverUnchanged ==
    [][Derives =>
          LET p == origin'[Len(svcs')].parent
          IN  /\ svcs'[p] = svcs[p]
              /\ ReadSlice(arrays', svcs'[p].mw) = ReadSlice(arrays, svcs[p].mw)
              /\ ReadSlice(arrays', svcs'[p].cmw) = ReadSlice(arrays, svcs[p].cmw)
              /\ svcs'[p].defaultCtx = svcs[p].defaultCtx
              /\ \A g \in Grps : grps'[g] = grps[g]
              /\ Len(grps') > Len(grps) => grps'[Len(grps')].svc = Len(svcs')]_vars

\* A value derived by an append that found room in the receiver's array,
\* and the receiver still reads the chain it was built with.
C23_Witness ==
    \E d \in Svcs :
        LET p == origin[d].parent
        IN  /\ p # 0
            /\ origin[d].via = "Use"
            /\ svcs[d].mw.arr = svcs[p].mw.arr
            /\ svcs[d].mw.len > svcs[p].mw.len
            /\ ReadSlice(arrays, svcs[p].mw) = origin[p].mw
            /\ ReadSlice(arrays, svcs[d].mw) = origin[p].mw \o origin[d].args

\* C27: the base endpoint of AddService(nc, config, fns...) and every plain
\* endpoint added to that service, or to a group of it, runs fns in order,
\* the first outermost.
C27_BaseAndLaterEndpoints ==
    \A e \in Eps :
        (/\ eps[e].flavor = "plain"
         /\ eps[e].svc \in Roots
         /\ origin[eps[e].svc].via = "AddService")
            => ChainRun(e) = origin[eps[e].svc].args

C27_Witness ==
    \E e \in Eps :
        /\ eps[e].flavor = "plain"
        /\ eps[e].svc \in Roots
        /\ origin[eps[e].svc].via = "AddService"
        /\ eps[e].grp # 0
        /\ Len(svcs) > 1
        /\ ChainRun(e) = <<1, 2>>

\* Group g was made by AddGroup (not by Use / UseContext on a group).
MadeByAddGroup(g) ==
    grps[g].from = 0 \/ grps[grps[g].from].depth < grps[g].depth

\* C28: a group made by AddGroup, on a service or on a group at any depth,
\* gives its endpoints exactly the chain of the value it was made from: an
\* endpoint on it runs what the same endpoint on that service or group runs.
C28_GroupRunsParentChain ==
    [][/\ \A g \in 1..MaxGrps : (g \in Grps' /\ MadeByAddGroup(g)') =>
              \A flavor \in {"plain", "context"} :
                  /\ grps'[g].from = 0 =>
                         \A s \in 1..MaxSvcs : grps'[g].base = s =>
                             GroupChain(g, flavor)' = ServiceChain(s, flavor)'
                  /\ \A f \in 1..MaxGrps : grps'[g].from = f =>
                         GroupChain(g, flavor)' = GroupChain(f, flavor)'
       /\ \A e \in 1..MaxEps, g \in 1..MaxGrps :
              (e \in Eps' /\ eps'[e].grp = g) =>
                  /\ eps'[e].flavor = "context" =>
                         ChainRun(e)' = GroupChain(g, "context")'
                  /\ (eps'[e].flavor = "plain" /\ e > Len(eps)) =>
                         ChainRun(e)' = GroupChain(g, "plain")']_vars

C28_Witness ==
    \E e \in Eps :
        /\ eps[e].flavor = "context"
        /\ eps[e].grp # 0
        /\ grps[eps[e].grp].depth = 2
        /\ origin[eps[e].svc].via = "AddContextService"
        /\ ChainRun(e) = <<1, 2>>

\* C30: the chain an endpoint runs is fixed when it is registered: no later
\* call changes which middleware, or in which order, a registered plain or
\* context endpoint runs.
C30_RegisteredChainFixed ==
    [][\A e \in Eps : ChainRun(e)' = ChainRun(e)]_vars

\* The middleware given to the plain calls (AddService, Use) and to the
\* context calls (AddContextService, UseContext) so far.
ArgsOf(calls) == UNION {Range(origin[s].args) : s \in {t \in Svcs : origin[t].via \in calls}}

\* C36: the two chains of a service are independent: plain middleware run
\* only on endpoints added with AddEndpoint and on the config's base
\* endpoint, context middleware only on endpoints added with
\* AddContextEndpoint; Use leaves the context chain as it was and UseContext
\* the plain chain.
C36_FlavorsIndependent ==
    /\ \A e \in Eps :
           /\ eps[e].flavor = "plain" =>
                  Range(ChainRun(e)) \cap ArgsOf(ContextCalls) = {}
           /\ eps[e].flavor = "context" =>
                  Range(ChainRun(e)) \cap ArgsOf(PlainCalls) = {}
    /\ \A s \in Svcs :
           /\ Range(ServiceChain(s, "plain")) \cap ArgsOf(ContextCalls) = {}
           /\ Range(ServiceChain(s, "context")) \cap ArgsOf(PlainCalls) = {}
           /\ (origin[s].parent # 0 /\ origin[s].via \in PlainCalls) =>
                  ServiceChain(s, "context") = ServiceChain(origin[s].parent, "context")
           /\ (origin[s].parent # 0 /\ origin[s].via \in ContextCalls) =>
                  ServiceChain(s, "plain") = ServiceChain(origin[s].parent, "plain")

\* A context endpoint of a value that has both chains.
C36_Witness ==
    \E e \in Eps :
        /\ eps[e].flavor = "context"
        /\ ServiceChain(eps[e].svc, "plain") = <<1, 2>>
        /\ ChainRun(e) = <<3>>
        /\ Len(svcs) > 2

----------------------------------------------------------------------------
(* Claims about the default context of services (specification SpecCtx) *)

\* C38: after s.SetDefaultContext(ctx), deliveries on every context
\* endpoint of s, of a group of s and of a value derived from s get ctx,
\* whether the endpoint, group or value was made before or after the call.
C38_DefaultContextEverywhere ==
    \A s \in Svcs :
        (origin[s].setCtx # <<>> /\ \A t \in Svcs \ {s} : origin[t].setCtx = <<>>) =>
            \A e \in Eps :
                (/\ eps[e].flavor = "context"
                 /\ eps[e].svc = s \/ DerivedFrom(eps[e].svc, s))
                    => DeliveredContext(e) = DeliveryContext(origin[s].setCtx[1])

----------------------------------------------------------------------------
(* Claims about errors that pass through middleware (specification SpecRun) *)

\* What the middleware of the delivery were told to do, outermost first.
ActsInOrder == [i \in 1..Len(run.mws) |-> run.acts[run.mws[i]]]

\* C33: on a failing delivery of a context endpoint the error report is the
\* last action, after the post-logic of every middleware, and what is
\* reported is the error the outermost link returned: a middleware that
\* replaces the inner error changes the report, one that returns nil for it
\* suppresses the report.
C33_ReportLastAndOutermost ==
    Delivered("context") =>
        /\ \A i \in 1..Len(run.log) : run.log[i] = "report" =>
               /\ i = Len(run.log)
               /\ Cardinality({j \in 1..(i - 1) : run.log[j] = "post"}) = Len(run.mws)
        /\ Len(Reports) = (IF "report" \in Range(run.log) THEN 1 ELSE 0)
        /\ run.err = NoError => Reports = <<>>
        /\ (run.err # NoError /\ ~run.crashed) =>
               /\ Len(Reports) = 1
               /\ Reports[1].op = "Error"
               /\ Reports[1].description = ErrorText(run.err)
        /\ Range(ActsInOrder) \subseteq {"pass"} => run.err = run.h.err
        /\ "suppress" \in Range(ActsInOrder) => run.err = NoError
        /\ (/\ "replace" \in Range(ActsInOrder)
            /\ "suppress" \notin Range(ActsInOrder)
            /\ run.h.err # NoError)
               => /\ run.err \notin {NoError, run.h.err}
                  /\ Reports[1].description # ErrorText(run.h.err)

C33_Witness ==
    /\ Delivered("context")
    /\ run.mws = <<1, 2>>
    /\ ActsInOrder = <<"replace", "pass">>
    /\ run.h.err = ErrorString(<<"request failed">>)
    /\ run.log = <<"pre", "pre", "H", "post", "post", "report">>
    /\ Reports[1].description = <<"replaced">>

\* C37: an error that carries a (description, code) pair is recognised as
\* structured, also a HandlerError a middleware wrapped inside another
\* error: the reported code is the HandlerError's code.
C37_WrappedHandlerError ==
    (/\ Delivered("context")
     /\ run.err.type \in {"*HandlerError", "*wrapError"}
     /\ ~run.err.ptr.nil)
        => /\ Len(Reports) = 1
           /\ Reports[1].code = run.err.ptr.Code

----------------------------------------------------------------------------
(* Further claims about the compression middleware (specification SpecComp) *)

\* C34: after a successful inbound decompression the request passed to the
\* next link no longer declares its payload as compressed, so that
\* CompressionMiddleware applied twice hands the terminal handler the
\* payload it gets when applied once, for every request one application
\* accepts.
C34_DecodedRequestConsistent ==
    /\ (comp.called /\ ReceivedEncoding \in Codecs) =>
           HeaderGet(comp.req.Headers, HeaderEncoding) \notin Codecs
    /\ (comp.state = "returned" /\ comp.link = "compression") =>
           comp.seen = <<comp.req.Data>>

\* C35: whatever the next link returns, a nil reply with a nil error
\* included, the middleware returns normally, with no reply and an error or
\* with the reply object of the next link and no error.
C35_OutboundNeverPanics ==
    (comp.called /\ comp.state # "next") =>
        /\ comp.state = "returned"
        /\ \/ comp.reply.nil /\ comp.err # NoErr
           \/ ~comp.reply.nil /\ comp.err = NoErr /\ comp.reply = comp.object


\* C32: AddService leaves the caller's configuration as it was: after every
\* call, failed or not, config.Endpoint.Handler is the handler the caller
\* supplied, so a later call with the same configuration hands the transport
\* that handler wrapped by its own fns exactly once.
C32_ConfigUntouched ==
    /\ \A c \in 1..Len(cfgs) : cfgs[c].Handler = supplied[c]
    /\ \A k \in 1..Len(addCalls) :
           (addCalls[k].cfg # 0 /\ supplied[addCalls[k].cfg] # NilHandler) =>
               addCalls[k].given = wrapFrom(supplied[addCalls[k].cfg],
                                            addCalls[k].fns, Len(addCalls[k].fns))

========================================================================
